---- MODULE Spec2Model ----
(***************************************************************************)
(* RHPMAN per-node protocol engine (RhpmanApp, Storage) as a state machine. *)
(*                                                                         *)
(* Every C++ method is an operator from a "world" record to a world        *)
(* record.  A world w holds what one call can read and write:              *)
(*   w.self  the node the method runs on (this)                            *)
(*   w.now   Simulator::Now()                                              *)
(*   w.a     the RhpmanApp object of that node (its member fields)         *)
(*   w.ev    the simulator's event queue (all nodes), in scheduling order  *)
(*   w.msgs  every envelope generated so far, indexed by its message id    *)
(*           (the static counter of GenerateMessageID is Len(w.msgs))      *)
(*   w.out   the datagrams handed to the sockets during this call          *)
(*   w.cb    the application callbacks fired during this call              *)
(* Doubles are kept in tenths (0.4 is 4), times in whole seconds.          *)
(***************************************************************************)
EXTENDS Integers, Sequences, FiniteSets, TLC

-----------------------------------------------------------------------------
(* Bounds of the model *)

NumNodes == 3
MaxData == 2

(* How often the simulator calls StartApplication on a node that is not    *)
(* restarted                                                               *)
MaxStarts == 1

(* Capacities.  The constructor of RhpmanApp leaves m_storageSpace and     *)
(* m_bufferSpace uninitialised, and StartApplication reads them: an object *)
(* is constructed with any values, here up to these.                       *)
StorageSpace == 2
BufferSpace == 1

Nodes == 1..NumNodes
DataIds == 1..MaxData
Self == 1
Peers == Nodes \ {Self}

(* Attribute values of the node (GetTypeId): thresholds and weights in     *)
(* tenths, times in seconds.  The times are a configuration that keeps the *)
(* order of the defaults: cooldown < the four timeouts < profile delay.    *)
m_forwardingThreshold == 4
m_carryingThreshold == 6
m_wcdc == 5
m_wcol == 5
m_profileDelay == 3
m_request_timeout == 2
m_missing_replication_timeout == 2
m_profile_timeout == 2
m_election_timeout == 2
m_election_cooldown == 1

(* Values a peer may put in a Ping (delivery probability) or a Fitness     *)
(* envelope, in tenths.                                                    *)
ProfileValues == {2, 7}
FitnessValues == {0, 5}

-----------------------------------------------------------------------------
(* Small helpers on sequences and functions *)

SeqToSet(s) == {s[i] : i \in 1..Len(s)}

(* s without its first element equal to e (s itself when there is none) *)
RemoveFirst(s, e) ==
  IF \E i \in 1..Len(s) : s[i] = e
  THEN LET k == CHOOSE i \in 1..Len(s) : s[i] = e /\ \A j \in 1..(i - 1) : s[j] # e
       IN  [i \in 1..(Len(s) - 1) |-> IF i < k THEN s[i] ELSE s[i + 1]]
  ELSE s

(* std::map operations: m[k] = v, m.erase(k) *)
MapPut(m, k, v) == [x \in (DOMAIN m) \cup {k} |-> IF x = k THEN v ELSE m[x]]
MapErase(m, k) == [x \in (DOMAIN m) \ {k} |-> m[x]]
EmptyMap == [x \in {} |-> 0]

(* The members of a set of naturals in increasing order (std::set iteration) *)
RECURSIVE SetToSeq(_)
SetToSeq(S) ==
  IF S = {} THEN <<>>
  ELSE LET m == CHOOSE x \in S : \A y \in S : x <= y
       IN  <<m>> \o SetToSeq(S \ {m})

-----------------------------------------------------------------------------
(* Envelopes (proto/messages.pb.h as used by the Generate* functions) *)

(* ts is the envelope's timestamp field and by the node whose Generate*    *)
(* call built it; no handler reads either.                                 *)
Msg(tag, data, a, b, val, items) ==
  [tag |-> tag, data |-> data, a |-> a, b |-> b, val |-> val, items |-> items,
   ts |-> 0, by |-> 0]

PingMsg(profile) == Msg("ping", 0, 0, 0, profile, <<>>)
AnnounceMsg == Msg("announce", 0, 0, 0, 0, <<>>)
ElectionMsg == Msg("election", 0, 0, 0, 0, <<>>)
FitnessMsg(f) == Msg("fitness", 0, 0, 0, f, <<>>)
ModeChangeMsg(old, new) == Msg("mode_change", 0, old, new, 0, <<>>)
StoreMsg(item) == Msg("store", item, 0, 0, 0, <<>>)
RequestMsg(dataID, requestor, sigma) == Msg("request", dataID, requestor, 0, sigma, <<>>)
ResponseMsg(requestID, item) == Msg("response", item, 0, 0, requestID, <<>>)
TransferMsg(items) == Msg("transfer", 0, 0, 0, 0, items)

-----------------------------------------------------------------------------
(* Simulator events and EventId handles *)

Event(node, fn, arg, at) == [node |-> node, fn |-> fn, arg |-> arg, at |-> at]

(* A default-constructed EventId: cancelling it does nothing *)
NoEvent == Event(0, "none", 0, 0)

(* Simulator::Schedule(delay, &RhpmanApp::fn, this, arg) *)
Schedule(w, delay, fn, arg) ==
  [w EXCEPT !.ev = Append(@, Event(w.self, fn, arg, w.now + delay))]

(* The EventId that the Schedule call above returns *)
Scheduled(w, delay, fn, arg) == Event(w.self, fn, arg, w.now + delay)

(* EventId::Cancel(): the event, if still queued, never runs *)
Cancel(w, e) == [w EXCEPT !.ev = RemoveFirst(@, e)]

(* What an EventId held in a member is once it has been cancelled: the     *)
(* event is expired, and cancelling it again does nothing                  *)
Expired == NoEvent
ExpiredAll(m) == [k \in DOMAIN m |-> Expired]

-----------------------------------------------------------------------------
(* Storage (storage.h / storage.cc): a vector of DataItem*; slot value 0   *)
(* is NULL, any other value is the id of the item the slot points to.      *)

StorageInit(capacity) == [i \in 1..capacity |-> 0]

(* Storage::Storage(): m_storageSpace = 0 *)
StorageNew == StorageInit(0)

(* Storage::StoreItem: the item goes into the first NULL slot, if any *)
StoreItem(st, data) ==
  IF \E i \in 1..Len(st) : st[i] = 0
  THEN LET k == CHOOSE i \in 1..Len(st) : st[i] = 0 /\ \A j \in 1..(i - 1) : st[j] # 0
       IN  [st EXCEPT ![k] = data]
  ELSE st

(* The value StoreItem returns: whether a NULL slot was found *)
StoreItemStatus(st) == \E i \in 1..Len(st) : st[i] = 0

(* Storage::GetItem: the item with that id, or 0 (NULL) *)
GetItem(st, dataID) ==
  IF \E i \in 1..Len(st) : st[i] # 0 /\ st[i] = dataID THEN dataID ELSE 0

(* Storage::ClearStorage *)
ClearStorage(st) == [i \in 1..Len(st) |-> 0]

(* Storage::GetAll: the items in slot order *)
GetAll(st) == SelectSeq(st, LAMBDA x : x # 0)

(* Storage::GetFreeSpace *)
GetFreeSpace(st) == Len(st) - Cardinality({i \in 1..Len(st) : st[i] # 0})

-----------------------------------------------------------------------------
(* RhpmanApp: construction (rhpman.h) *)

Roles == {"NON_REPLICATING", "REPLICATING"}

NewApp(role, storageSpace, bufferSpace) ==
  [ m_state |-> "NOT_STARTED",
    m_role |-> role,
    m_storageSpace |-> storageSpace,
    m_bufferSpace |-> bufferSpace,
    m_sockets |-> FALSE,
    m_address |-> 0,
    m_storage |-> StorageNew,
    m_buffer |-> StorageNew,
    m_pendingLookups |-> {},
    m_lookupMapping |-> EmptyMap,
    m_peerFitness |-> EmptyMap,
    m_peerProfiles |-> EmptyMap,
    m_profileTimeouts |-> EmptyMap,
    m_replicationNodeTimeouts |-> EmptyMap,
    m_myFitness |-> 0,
    m_replicating_nodes |-> {},
    m_received_messages |-> {},
    m_min_election_time |-> 0,
    m_election_watchdog_event |-> NoEvent,
    m_replica_announcement_event |-> NoEvent ]

-----------------------------------------------------------------------------
(* actually send messages *)

(* One datagram handed to a socket.  A send on a socket that is 0 (before  *)
(* start, after stop) dereferences a null Ptr: no datagram leaves and the  *)
(* entry is kept as a fault.                                               *)
Out(w, to, chan, id) ==
  [w EXCEPT !.out = Append(@, [to |-> to, id |-> id, from |-> w.self,
                               chan |-> IF w.a.m_sockets THEN chan ELSE "fault"])]

BroadcastToNeighbors(w, id) == Out(w, 0, "neighbors", id)
BroadcastToElection(w, id) == Out(w, 0, "election", id)
SendMessage(w, dest, id) == Out(w, dest, "unicast", id)

RECURSIVE SendSeq(_, _, _)
SendSeq(w, id, dests) ==
  IF dests = <<>> THEN w
  ELSE SendSeq(SendMessage(w, Head(dests), id), id, Tail(dests))

(* RhpmanApp::SendToNodes: one unicast per member, in std::set order *)
SendToNodes(w, id, nodes) == SendSeq(w, id, SetToSeq(nodes))

-----------------------------------------------------------------------------
(* generate messages: each takes the next message id and builds the        *)
(* envelope; the id of the envelope built last is LastId.                  *)

GenerateMessageID(w) == Len(w.msgs) + 1
LastId(w) == Len(w.msgs)
Generate(w, m) == [w EXCEPT !.msgs = Append(@, [m EXCEPT !.by = w.self, !.ts = w.now])]

(* GenerateLookup(messageID, ...) keeps the id it is given: a relayed      *)
(* Request is the envelope with that id again.                             *)
GenerateLookup(w, messageID, dataID, sigma, srcNode) ==
  IF messageID = Len(w.msgs) + 1
  THEN Generate(w, RequestMsg(dataID, srcNode, sigma))
  ELSE w
GenerateStore(w, data) == Generate(w, StoreMsg(data))
GeneratePing(w, profile) == Generate(w, PingMsg(profile))
GenerateReplicaAnnouncement(w) == Generate(w, AnnounceMsg)
GenerateElectionRequest(w) == Generate(w, ElectionMsg)
GenerateModeChange(w, newNode) == Generate(w, ModeChangeMsg(w.a.m_address, newNode))
GenerateTransfer(w, items) == Generate(w, TransferMsg(items))
GenerateResponse(w, responseTo, data) == Generate(w, ResponseMsg(responseTo, data))

-----------------------------------------------------------------------------
(* calculation helpers *)

CalculateChangeDegree == 0

CalculateColocation(w) == IF w.a.m_role = "REPLICATING" THEN 1 ELSE 0

(* P_ij in tenths *)
CalculateProfile(w) ==
  IF w.a.m_role = "REPLICATING" THEN 10
  ELSE m_wcdc * CalculateChangeDegree + m_wcol * CalculateColocation(w)

CalculateElectionFitness(w) == [w EXCEPT !.a.m_myFitness = 0]

ResetFitnesses(w) == [w EXCEPT !.a.m_myFitness = 0, !.a.m_peerFitness = EmptyMap]

-----------------------------------------------------------------------------
(* recipients *)

(* A selection of the peers whose profile is at most sigma *)
GetRecipientAddresses_AtMost(w, sigma) ==
  {p \in DOMAIN w.a.m_peerProfiles : w.a.m_peerProfiles[p] <= sigma}

GetRecipientAddresses(w, sigma) ==
  {p \in DOMAIN w.a.m_peerProfiles : w.a.m_peerProfiles[p] >= sigma}

(* A FilterAddresses that excludes nothing *)
FilterAddresses_Nothing(addresses, exclude) == addresses

FilterAddresses(addresses, exclude) == addresses \ exclude

FilterAddress(addresses, exclude) == addresses \ {exclude}

SemiProbabilisticSend(w, id, srcAddr, sigma) ==
  LET w1 == SendToNodes(w, id, w.a.m_replicating_nodes)
      nodes == FilterAddress(
                 FilterAddresses(GetRecipientAddresses(w1, sigma), w1.a.m_replicating_nodes),
                 srcAddr)
  IN  SendToNodes(w1, id, nodes)

-----------------------------------------------------------------------------
(* send messages *)

SendStartElection(w) ==
  LET w1 == GenerateElectionRequest(w) IN BroadcastToElection(w1, LastId(w1))

SendReplicationAnnouncement(w) ==
  LET w1 == GenerateReplicaAnnouncement(w) IN BroadcastToElection(w1, LastId(w1))

SendPing(w) ==
  LET w1 == GeneratePing(w, CalculateProfile(w)) IN BroadcastToNeighbors(w1, LastId(w1))

(* RhpmanApp::SendFitness has an empty body *)
SendFitness(w) == w

SendRoleChange(w, newReplicationNode) ==
  LET w1 == GenerateModeChange(w, newReplicationNode) IN BroadcastToElection(w1, LastId(w1))

SendResponse(w, requestID, nodeID, data) ==
  LET w1 == GenerateResponse(w, requestID, data) IN SendMessage(w1, nodeID, LastId(w1))

-----------------------------------------------------------------------------
(* event schedulers *)

SchedulePing(w) ==
  IF w.a.m_state # "RUNNING" THEN w
  ELSE Schedule(SendPing(w), m_profileDelay, "SchedulePing", 0)

ScheduleReplicaHolderAnnouncement(w) ==
  IF w.a.m_state # "RUNNING" THEN w
  ELSE LET w1 == SendReplicationAnnouncement(w)
           w2 == Schedule(w1, m_profileDelay, "ScheduleReplicaHolderAnnouncement", 0)
       IN  [w2 EXCEPT !.a.m_replica_announcement_event =
              Scheduled(w1, m_profileDelay, "ScheduleReplicaHolderAnnouncement", 0)]

ScheduleElectionCheck(w) ==
  IF w.a.m_state # "RUNNING" THEN w
  ELSE Schedule(w, m_election_timeout, "CheckElectionResults", 0)

ScheduleElectionWatchdog(w) ==
  IF w.a.m_state # "RUNNING" THEN w
  ELSE [Schedule(w, m_missing_replication_timeout, "TriggerElection", 0)
          EXCEPT !.a.m_election_watchdog_event =
            Scheduled(w, m_missing_replication_timeout, "TriggerElection", 0)]

ScheduleLookupTimeout(w, requestID, dataID) ==
  IF w.a.m_state # "RUNNING" THEN w
  ELSE [Schedule(w, m_request_timeout, "LookupTimeout", requestID)
          EXCEPT !.a.m_pendingLookups = @ \cup {requestID},
                 !.a.m_lookupMapping = MapPut(@, requestID, dataID)]

(* The EventId a std::map<uint32_t, EventId> holds for a key (operator[]   *)
(* default-constructs the missing one)                                     *)
EventOf(m, k) == IF k \in DOMAIN m THEN m[k] ELSE NoEvent

ScheduleProfileTimeout(w, nodeID) ==
  IF w.a.m_state # "RUNNING" THEN w
  ELSE LET w1 == Cancel(w, EventOf(w.a.m_profileTimeouts, nodeID))
       IN  [Schedule(w1, m_profile_timeout, "ProfileTimeout", nodeID)
              EXCEPT !.a.m_profileTimeouts =
                MapPut(@, nodeID, Scheduled(w1, m_profile_timeout, "ProfileTimeout", nodeID))]

ScheduleReplicaNodeTimeout(w, nodeID) ==
  IF w.a.m_state # "RUNNING" THEN w
  ELSE LET w1 == Cancel(w, EventOf(w.a.m_replicationNodeTimeouts, nodeID))
       IN  [Schedule(w1, m_missing_replication_timeout, "ReplicationNodeTimeout", nodeID)
              EXCEPT !.a.m_replicationNodeTimeouts =
                MapPut(@, nodeID,
                  Scheduled(w1, m_missing_replication_timeout, "ReplicationNodeTimeout", nodeID))]

-----------------------------------------------------------------------------
(* election *)

RunElection(w) ==
  LET w1 == [w EXCEPT !.a.m_min_election_time = w.now + m_election_cooldown]
  IN  ScheduleElectionCheck(SendFitness(CalculateElectionFitness(w1)))

TriggerElection(w) ==
  IF w.now < w.a.m_min_election_time THEN w
  ELSE RunElection(SendStartElection(w))

MakeReplicaHolderNode(w) ==
  LET w1 == [w EXCEPT !.a.m_role = "REPLICATING"]
  IN  ScheduleReplicaHolderAnnouncement(SendRoleChange(w1, w1.a.m_address))

(* A step-down that announces nothing *)
MakeNonReplicaHolderNode_Silent(w) ==
  LET w1 == [w EXCEPT !.a.m_role = "NON_REPLICATING"]
  IN  [Cancel(w1, w1.a.m_replica_announcement_event)
         EXCEPT !.a.m_replica_announcement_event = Expired]

MakeNonReplicaHolderNode(w) ==
  LET w1 == [w EXCEPT !.a.m_role = "NON_REPLICATING"]
      w2 == [Cancel(w1, w1.a.m_replica_announcement_event)
               EXCEPT !.a.m_replica_announcement_event = Expired]
  IN  SendRoleChange(w2, 0)

ChangeRole(w, newRole) ==
  IF newRole = "REPLICATING" THEN MakeReplicaHolderNode(w)
  ELSE IF w.a.m_role = "REPLICATING" /\ newRole # "REPLICATING"
       THEN MakeNonReplicaHolderNode(w)
       ELSE w

(* A GetNewRole that a tie loses: the node wins only with a fitness        *)
(* strictly above every vote                                               *)
GetNewRole_TieLoses(w) ==
  IF \E p \in DOMAIN w.a.m_peerFitness : w.a.m_myFitness <= w.a.m_peerFitness[p]
  THEN "NON_REPLICATING"
  ELSE "REPLICATING"

GetNewRole(w) ==
  IF \E p \in DOMAIN w.a.m_peerFitness : w.a.m_myFitness < w.a.m_peerFitness[p]
  THEN "NON_REPLICATING"
  ELSE "REPLICATING"

CheckElectionResults(w) == ChangeRole(ResetFitnesses(w), GetNewRole(w))

-----------------------------------------------------------------------------
(* storage functions and lookup *)

(* __RHPMAN_OPTIONAL_CHECK_BUFFER is defined in rhpman.h *)
CheckLocalStorage(w, dataID) ==
  IF GetItem(w.a.m_storage, dataID) # 0 THEN GetItem(w.a.m_storage, dataID)
  ELSE GetItem(w.a.m_buffer, dataID)

Callback(w, kind, arg, rid) ==
  [w EXCEPT !.cb = Append(@, [kind |-> kind, arg |-> arg, rid |-> rid])]

LookupFromReplicaHolders(w, dataID, requestID, srcNode) ==
  LET w1 == GenerateLookup(w, requestID, dataID, 0, srcNode)
      w2 == SendToNodes(w1, requestID, w1.a.m_replicating_nodes)
  IN  IF srcNode = w.a.m_address THEN ScheduleLookupTimeout(w2, requestID, dataID) ELSE w2

(* A RunProbabilisticLookup that sends by the profiles whether or not a     *)
(* replica holder is known                                                 *)
RunProbabilisticLookup_ByProfiles(w, requestID, dataID, srcNode) ==
  LET sigma == CalculateProfile(w)
      w1 == GenerateLookup(w, requestID, dataID, sigma, srcNode)
  IN  ScheduleLookupTimeout(
        SemiProbabilisticSend(w1, requestID, srcNode, sigma), requestID, dataID)

RunProbabilisticLookup(w, requestID, dataID, srcNode) ==
  IF w.a.m_replicating_nodes # {}
  THEN LookupFromReplicaHolders(w, dataID, requestID, srcNode)
  ELSE LET sigma == CalculateProfile(w)
           w1 == GenerateLookup(w, requestID, dataID, sigma, srcNode)
       IN  ScheduleLookupTimeout(
             SemiProbabilisticSend(w1, requestID, srcNode, sigma), requestID, dataID)

(* A Lookup that asks the network without looking into the node's own      *)
(* containers                                                              *)
Lookup_SkipsCache(w, id) ==
  RunProbabilisticLookup(w, GenerateMessageID(w), id, w.a.m_address)

(* public: RhpmanApp::Lookup *)
Lookup(w, id) ==
  IF CheckLocalStorage(w, id) # 0
  THEN Callback(w, "success", CheckLocalStorage(w, id), 0)
  ELSE RunProbabilisticLookup(w, GenerateMessageID(w), id, w.a.m_address)

(* A Save that gives up when Storage is full, without sending the Store *)
Save_StopsWhenFull(w, data) ==
  IF StoreItemStatus(w.a.m_storage)
  THEN LET w1 == [w EXCEPT !.a.m_storage = StoreItem(@, data)]
           w2 == GenerateStore(w1, data)
       IN  SemiProbabilisticSend(w2, LastId(w2), 0, m_forwardingThreshold)
  ELSE w

(* public: RhpmanApp::Save; the bool it returns is SaveStatus *)
Save(w, data) ==
  LET w1 == [w EXCEPT !.a.m_storage = StoreItem(@, data)]
      w2 == GenerateStore(w1, data)
  IN  SemiProbabilisticSend(w2, LastId(w2), 0, m_forwardingThreshold)

SaveStatus(w) == StoreItemStatus(w.a.m_storage)

TransferBuffer(w, nodeID) ==
  LET w1 == GenerateTransfer(w, GetAll(w.a.m_buffer))
      w2 == SendMessage(w1, nodeID, LastId(w1))
  IN  [w2 EXCEPT !.a.m_buffer = ClearStorage(@)]

-----------------------------------------------------------------------------
(* message handlers *)

(* A HandlePing that hands the Buffer over to every peer that pings *)
HandlePing_TransfersAlways(w, nodeID, profile) ==
  LET w1 == [w EXCEPT !.a.m_peerProfiles = MapPut(@, nodeID, profile)]
  IN  TransferBuffer(ScheduleProfileTimeout(w1, nodeID), nodeID)

HandlePing(w, nodeID, profile) ==
  LET w1 == [w EXCEPT !.a.m_peerProfiles = MapPut(@, nodeID, profile)]
      w2 == ScheduleProfileTimeout(w1, nodeID)
  IN  \* __RHPMAN_OPTIONAL_CARRIER_FORWARDING is defined in rhpman.h
      IF profile > CalculateProfile(w2) THEN TransferBuffer(w2, nodeID) ELSE w2

HandleReplicationAnnouncement(w, nodeID) ==
  LET w1 == [Cancel(w, w.a.m_election_watchdog_event)
               EXCEPT !.a.m_election_watchdog_event = Expired]
      w2 == [w1 EXCEPT !.a.m_replicating_nodes = @ \cup {nodeID}]
  IN  ScheduleReplicaNodeTimeout(w2, nodeID)

(* A HandleModeChange whose handover keeps the old holder *)
HandleModeChange_KeepsOld(w, oldNode, newNode) ==
  IF oldNode = newNode
  THEN [w EXCEPT !.a.m_replicating_nodes = @ \cup {newNode}]
  ELSE IF newNode = 0
       THEN LET w1 == [w EXCEPT !.a.m_replicating_nodes = @ \ {oldNode}]
            IN  IF w1.a.m_replicating_nodes = {} THEN TriggerElection(w1) ELSE w1
       ELSE [w EXCEPT !.a.m_replicating_nodes = @ \cup {newNode}]

HandleModeChange(w, oldNode, newNode) ==
  IF oldNode = newNode
  THEN [w EXCEPT !.a.m_replicating_nodes = @ \cup {newNode}]
  ELSE IF newNode = 0
       THEN LET w1 == [w EXCEPT !.a.m_replicating_nodes = @ \ {oldNode}]
            IN  IF w1.a.m_replicating_nodes = {} THEN TriggerElection(w1) ELSE w1
       ELSE [w EXCEPT !.a.m_replicating_nodes = (@ \ {oldNode}) \cup {newNode}]

(* A HandleElectionRequest without the cooldown *)
HandleElectionRequest_NoCooldown(w) == RunElection(w)

HandleElectionRequest(w) ==
  IF w.now < w.a.m_min_election_time THEN w ELSE RunElection(w)

HandleElectionFitness(w, nodeID, fitness) ==
  [w EXCEPT !.a.m_peerFitness = MapPut(@, nodeID, fitness)]

HandleLookup(w, nodeID, requestID, dataID) ==
  IF CheckLocalStorage(w, dataID) # 0
  THEN SendResponse(w, requestID, nodeID, CheckLocalStorage(w, dataID))
  ELSE RunProbabilisticLookup(w, requestID, dataID, nodeID)

(* What the slots of a container can read as once the items they point to  *)
(* have been freed: NULL slots stay NULL, every other slot still holds its *)
(* (dangling) pointer and its id is whatever the freed memory holds.       *)
Garbage == MaxData + 1
FreedReads(st) ==
  {f \in [1..Len(st) -> 0..Garbage] : \A i \in 1..Len(st) : (f[i] = 0) <=> (st[i] = 0)}

(* A HandleTransfer that puts the first item of the list into the node's   *)
(* own container                                                           *)
HandleTransfer_KeepsFirst(w, data, freed) ==
  IF data = <<>> THEN w
  ELSE IF w.a.m_role = "REPLICATING"
       THEN [w EXCEPT !.a.m_storage = StoreItem(@, Head(data))]
       ELSE [w EXCEPT !.a.m_buffer = StoreItem(@, Head(data))]

(* HandleTransfer stores into `storage`, a copy of m_storage or m_buffer.  *)
(* The items go into the copy only, and when the copy is destroyed at the  *)
(* end of the call ~Storage() frees every item it points to, those of the  *)
(* node's own container included.  freed is what the node's container      *)
(* reads as from then on (a member of FreedReads).                         *)
HandleTransfer(w, data, freed) ==
  IF w.a.m_role = "REPLICATING"
  THEN [w EXCEPT !.a.m_storage = freed]
  ELSE [w EXCEPT !.a.m_buffer = freed]

(* The container HandleTransfer copies *)
TransferTarget(a) == IF a.m_role = "REPLICATING" THEN a.m_storage ELSE a.m_buffer

(* A HandleStore of a carrier that does not look for the item first and    *)
(* buffers whatever its profile is                                         *)
HandleStore_CarriesAll(w, nodeID, data, id) ==
  IF w.a.m_role = "REPLICATING"
  THEN [w EXCEPT !.a.m_storage = StoreItem(@, data)]
  ELSE LET w1 == SemiProbabilisticSend(w, id, nodeID, m_forwardingThreshold)
       IN  [w1 EXCEPT !.a.m_buffer = StoreItem(@, data)]

(* A HandleStore whose replica holder stores the item and relays the       *)
(* envelope as well                                                        *)
HandleStore_HolderRelays(w, nodeID, data, id) ==
  IF CheckLocalStorage(w, data) # 0 THEN w
  ELSE LET w1 == SemiProbabilisticSend(w, id, nodeID, m_forwardingThreshold)
       IN  IF w.a.m_role = "REPLICATING"
           THEN [w1 EXCEPT !.a.m_storage = StoreItem(@, data)]
           ELSE IF CalculateProfile(w1) > m_carryingThreshold
                THEN [w1 EXCEPT !.a.m_buffer = StoreItem(@, data)]
                ELSE w1

(* A HandleStore whose carrier buffers the item when its profile is not    *)
(* above the carrying threshold                                            *)
HandleStore_CarriesBelow(w, nodeID, data, id) ==
  IF CheckLocalStorage(w, data) # 0 THEN w
  ELSE IF w.a.m_role = "REPLICATING"
       THEN [w EXCEPT !.a.m_storage = StoreItem(@, data)]
       ELSE LET w1 == SemiProbabilisticSend(w, id, nodeID, m_forwardingThreshold)
            IN  IF CalculateProfile(w1) <= m_carryingThreshold
                THEN [w1 EXCEPT !.a.m_buffer = StoreItem(@, data)]
                ELSE w1

HandleStore(w, nodeID, data, id) ==
  IF CheckLocalStorage(w, data) # 0 THEN w
  ELSE IF w.a.m_role = "REPLICATING"
       THEN [w EXCEPT !.a.m_storage = StoreItem(@, data)]
       ELSE LET w1 == SemiProbabilisticSend(w, id, nodeID, m_forwardingThreshold)
            IN  IF CalculateProfile(w1) > m_carryingThreshold
                THEN [w1 EXCEPT !.a.m_buffer = StoreItem(@, data)]
                ELSE w1

IsResponsePending(w, requestID) == requestID \in w.a.m_pendingLookups

(* A HandleResponse that does not ask whether the request is pending *)
HandleResponse_AnyRequest(w, requestID, data) ==
  Callback([w EXCEPT !.a.m_pendingLookups = @ \ {requestID}], "success", data, requestID)

HandleResponse(w, requestID, data) ==
  IF IsResponsePending(w, requestID)
  THEN Callback([w EXCEPT !.a.m_pendingLookups = @ \ {requestID}], "success", data, requestID)
  ELSE w

(* A CheckDuplicateMessage that finds no id again *)
CheckDuplicateMessage_Never(w, messageID) == FALSE

(* CheckDuplicateMessage: its result; HandleRequest below does its insert *)
CheckDuplicateMessage(w, messageID) == messageID \in w.a.m_received_messages

(* A HandleRequest that does not record the ids it has received *)
HandleRequest_ForgetsId(w, srcAddress, id, freed) ==
  LET message == w.msgs[id]
  IN  CASE message.tag = "announce" -> HandleReplicationAnnouncement(w, srcAddress)
        [] message.tag = "ping" -> HandlePing(w, srcAddress, message.val)
        [] message.tag = "mode_change" -> HandleModeChange(w, message.a, message.b)
        [] message.tag = "election" -> HandleElectionRequest(w)
        [] message.tag = "fitness" -> HandleElectionFitness(w, srcAddress, message.val)
        [] message.tag = "store" -> HandleStore(w, srcAddress, message.data, id)
        [] message.tag = "request" -> HandleLookup(w, message.a, id, message.data)
        [] message.tag = "response" -> HandleResponse(w, message.val, message.data)
        [] message.tag = "transfer" -> HandleTransfer(w, message.items, freed)
        [] OTHER -> w

(* RhpmanApp::HandleRequest for one datagram: the envelope with id `id`    *)
(* received from address srcAddress                                        *)
HandleRequest(w, srcAddress, id, freed) ==
  LET message == w.msgs[id]
      w1 == [w EXCEPT !.a.m_received_messages = @ \cup {id}]
  IN  IF CheckDuplicateMessage(w, id) THEN w1
      ELSE CASE message.tag = "announce" -> HandleReplicationAnnouncement(w1, srcAddress)
             [] message.tag = "ping" -> HandlePing(w1, srcAddress, message.val)
             [] message.tag = "mode_change" -> HandleModeChange(w1, message.a, message.b)
             [] message.tag = "election" -> HandleElectionRequest(w1)
             [] message.tag = "fitness" -> HandleElectionFitness(w1, srcAddress, message.val)
             [] message.tag = "store" -> HandleStore(w1, srcAddress, message.data, id)
             [] message.tag = "request" -> HandleLookup(w1, message.a, id, message.data)
             [] message.tag = "response" -> HandleResponse(w1, message.val, message.data)
             [] message.tag = "transfer" -> HandleTransfer(w1, message.items, freed)
             [] OTHER -> w1

(* RhpmanApp::HandleRequest, the whole receive callback: the loop over the *)
(* datagrams [from, id] queued on the socket.  A duplicate ends the        *)
(* callback (`return` inside the loop); `left` is what stays queued on the *)
(* socket, `dup` whether the callback ended on a duplicate.                *)
RECURSIVE HandleRequests(_, _)
HandleRequests(w, queue) ==
  IF queue = <<>> THEN [w |-> w, left |-> <<>>, dup |-> FALSE]
  ELSE LET d == Head(queue)
           w1 == HandleRequest(w, d.from, d.id, TransferTarget(w.a))
       IN  IF CheckDuplicateMessage(w, d.id)
           THEN [w |-> w1, left |-> Tail(queue), dup |-> TRUE]
           ELSE HandleRequests(w1, Tail(queue))

-----------------------------------------------------------------------------
(* Scheduled event handlers *)

LookupTimeout(w, requestID) ==
  IF IsResponsePending(w, requestID)
  THEN Callback([w EXCEPT !.a.m_pendingLookups = @ \ {requestID}],
                "failed", w.a.m_lookupMapping[requestID], requestID)
  ELSE w

ProfileTimeout(w, nodeID) == [w EXCEPT !.a.m_peerProfiles = MapErase(@, nodeID)]

ReplicationNodeTimeout(w, nodeID) ==
  LET w1 == [w EXCEPT !.a.m_replicating_nodes = @ \ {nodeID}]
  IN  IF w1.a.m_replicating_nodes = {} THEN TriggerElection(w1) ELSE w1

(* The simulator invoking a due event *)
RunEvent(w, e) ==
  CASE e.fn = "SchedulePing" -> SchedulePing(w)
    [] e.fn = "ScheduleReplicaHolderAnnouncement" -> ScheduleReplicaHolderAnnouncement(w)
    [] e.fn = "CheckElectionResults" -> CheckElectionResults(w)
    [] e.fn = "TriggerElection" -> TriggerElection(w)
    [] e.fn = "LookupTimeout" -> LookupTimeout(w, e.arg)
    [] e.fn = "ProfileTimeout" -> ProfileTimeout(w, e.arg)
    [] e.fn = "ReplicationNodeTimeout" -> ReplicationNodeTimeout(w, e.arg)

-----------------------------------------------------------------------------
(* lifecycle *)

RECURSIVE CancelAll(_, _)
CancelAll(w, es) == IF es = <<>> THEN w ELSE CancelAll(Cancel(w, Head(es)), Tail(es))

CancelEventMap(w, events) ==
  CancelAll(w, [i \in 1..Len(SetToSeq(DOMAIN events)) |-> events[SetToSeq(DOMAIN events)[i]]])

(* A StartApplication that starts over on a running node *)
StartApplication_Restarts(w) ==
  LET w1 == [w EXCEPT !.a.m_sockets = TRUE,
                      !.a.m_storage = StorageInit(w.a.m_storageSpace),
                      !.a.m_buffer = StorageInit(w.a.m_bufferSpace),
                      !.a.m_address = w.self,
                      !.a.m_state = "RUNNING"]
  IN  RunElection(ScheduleElectionWatchdog(SchedulePing(w1)))

StartApplication(w) ==
  IF w.a.m_state = "RUNNING" THEN w
  ELSE LET w1 == [w EXCEPT !.a.m_sockets = TRUE,
                           !.a.m_storage = StorageInit(w.a.m_storageSpace),
                           !.a.m_buffer = StorageInit(w.a.m_bufferSpace),
                           !.a.m_address = w.self,
                           !.a.m_state = "RUNNING"]
       IN  RunElection(ScheduleElectionWatchdog(SchedulePing(w1)))

(* A StopApplication that also resets m_min_election_time *)
StopApplication_ForgetsElection(w) ==
  IF w.a.m_state = "NOT_STARTED" THEN w
  ELSE LET w1 == [w EXCEPT !.a.m_sockets = FALSE, !.a.m_state = "STOPPED",
                           !.a.m_min_election_time = 0]
           w2 == [Cancel(w1, w1.a.m_election_watchdog_event)
                    EXCEPT !.a.m_election_watchdog_event = Expired]
           w3 == [Cancel(w2, w2.a.m_replica_announcement_event)
                    EXCEPT !.a.m_replica_announcement_event = Expired]
           w4 == [CancelEventMap(w3, w3.a.m_profileTimeouts)
                    EXCEPT !.a.m_profileTimeouts = ExpiredAll(@)]
       IN  [CancelEventMap(w4, w4.a.m_replicationNodeTimeouts)
              EXCEPT !.a.m_replicationNodeTimeouts = ExpiredAll(@)]

StopApplication(w) ==
  IF w.a.m_state = "NOT_STARTED" THEN w
  ELSE LET w1 == [w EXCEPT !.a.m_sockets = FALSE, !.a.m_state = "STOPPED"]
           w2 == [Cancel(w1, w1.a.m_election_watchdog_event)
                    EXCEPT !.a.m_election_watchdog_event = Expired]
           w3 == [Cancel(w2, w2.a.m_replica_announcement_event)
                    EXCEPT !.a.m_replica_announcement_event = Expired]
           w4 == [CancelEventMap(w3, w3.a.m_profileTimeouts)
                    EXCEPT !.a.m_profileTimeouts = ExpiredAll(@)]
       IN  [CancelEventMap(w4, w4.a.m_replicationNodeTimeouts)
              EXCEPT !.a.m_replicationNodeTimeouts = ExpiredAll(@)]

-----------------------------------------------------------------------------
(* The state machine *)

VARIABLES
  app,       \* app[n]: the RhpmanApp object of node n
  now,       \* Simulator::Now()
  events,    \* the simulator's queue of scheduled events, in scheduling order
  messages,  \* messages[id]: the envelope with message id id
  net,       \* datagrams in flight between modelled nodes
  step,      \* the call made by the last step, with what it sent and called back
  hist       \* hist[n]: what node n has done so far (callbacks per request id,
             \* calls of StartApplication, election decisions)

vars == <<app, now, events, messages, net, step, hist>>

World(n) ==
  [self |-> n, now |-> now, a |-> app[n], ev |-> events, msgs |-> messages,
   out |-> <<>>, cb |-> <<>>]

StepRec(op, node, src, id, dup, out, cb) ==
  [op |-> op, node |-> node, src |-> src, id |-> id, dup |-> dup, out |-> out, cb |-> cb]

NoCallbacks == [success |-> 0, failed |-> 0]
CallbacksOf(h, r) == IF r \in DOMAIN h THEN h[r] ELSE NoCallbacks
NoHistory == [cbs |-> EmptyMap, starts |-> 0, decided |-> 0]

(* The callbacks of a call added to the node's count per request id        *)
(* (a success of Lookup from the local store carries request id 0 and is   *)
(* not counted)                                                            *)
RECURSIVE Record(_, _)
Record(h, cb) ==
  IF cb = <<>> THEN h
  ELSE LET c == Head(cb)
           old == CallbacksOf(h, c.rid)
           new == IF c.kind = "success" THEN [old EXCEPT !.success = @ + 1]
                                        ELSE [old EXCEPT !.failed = @ + 1]
       IN  Record(IF c.rid = 0 THEN h ELSE MapPut(h, c.rid, new), Tail(cb))

(* A send on a null socket ends the simulation process *)
Crashed == \E i \in 1..Len(step.out) : step.out[i].chan = "fault"

(* The result w of a call on node w.self becomes the new state *)
Commit(w, op, src, id, dup) ==
  /\ ~Crashed
  /\ app' = [app EXCEPT ![w.self] = w.a]
  /\ events' = w.ev
  /\ messages' = w.msgs
  /\ step' = StepRec(op, w.self, src, id, dup, w.out, w.cb)
  /\ hist' = [hist EXCEPT ![w.self] =
                [cbs |-> Record(@.cbs, w.cb),
                 starts |-> IF op = "StartApplication" THEN @.starts + 1 ELSE @.starts,
                 decided |-> IF op = "CheckElectionResults" THEN @.decided + 1
                             ELSE @.decided]]
  /\ UNCHANGED now

Running(n) == app[n].m_state = "RUNNING"

(* Envelopes built by node n, and those among them built by Lookup or Save *)
MintedBy(n) == {i \in 1..Len(messages) : messages[i].by = n}
ApiCalls(n) == {i \in MintedBy(n) : messages[i].tag \in {"request", "store"}}

(* The simulator starts / stops the application of node n *)
Start(n, maxStarts) ==
  /\ hist[n].starts < maxStarts
  /\ Commit(StartApplication(World(n)), "StartApplication", 0, 0, FALSE)

Stop(n) == Commit(StopApplication(World(n)), "StopApplication", 0, 0, FALSE)

(* The application calls Lookup(d) / Save(d) on a running node *)
CallLookup(n, d, maxCalls) ==
  /\ Running(n)
  /\ Cardinality(ApiCalls(n)) < maxCalls
  /\ Commit(Lookup(World(n), d), "Lookup", 0, d, FALSE)

CallSave(n, d, maxCalls) ==
  /\ Running(n)
  /\ Cardinality(ApiCalls(n)) < maxCalls
  /\ Commit(Save(World(n), d), "Save", 0, d, FALSE)

(* The receive callback of node n for the envelope id sent by src; the     *)
(* step records as dup whether n had received that id before               *)
Receive(n, src, id, msgs) ==
  \E freed \in IF msgs[id].tag = "transfer" THEN FreedReads(TransferTarget(app[n]))
               ELSE {TransferTarget(app[n])} :
    Commit(HandleRequest([World(n) EXCEPT !.msgs = msgs], src, id, freed),
           msgs[id].tag, src, id, id \in app[n].m_received_messages)

(* The simulator runs the first queued event that is due *)
Due == {k \in 1..Len(events) : events[k].at <= now}

Fire ==
  /\ Due # {}
  /\ LET k == CHOOSE i \in Due : \A j \in Due : i <= j
         e == events[k]
         w == [World(e.node) EXCEPT !.ev = RemoveFirst(events, e)]
     IN  Commit(RunEvent(w, e), e.fn, 0, e.arg, FALSE)

(* Simulated time passes when nothing is due (the clock is read from the   *)
(* first start on)                                                         *)
Tick(maxTime) ==
  /\ ~Crashed
  /\ Due = {}
  /\ now < maxTime
  /\ \E n \in Nodes : hist[n].starts > 0
  /\ now' = now + 1
  /\ step' = StepRec("Tick", 0, 0, 0, FALSE, <<>>, <<>>)
  /\ UNCHANGED <<app, events, messages, hist>>

-----------------------------------------------------------------------------
(* One node and its environment: the peers of node Self are not modelled,  *)
(* the envelopes they build arrive as they are built.                      *)

TransferLists == UNION {[1..k -> DataIds] : k \in 0..2}

RequestIds == {i \in 1..Len(messages) : messages[i].tag = "request"}

(* The envelopes peer src can build *)
PeerMsgs(src) ==
  {PingMsg(v) : v \in ProfileValues}
    \cup {AnnounceMsg, ElectionMsg}
    \cup {FitnessMsg(f) : f \in FitnessValues}
    \cup {ModeChangeMsg(src, new) : new \in {0} \cup Peers}
    \cup {StoreMsg(d) : d \in DataIds}
    \cup {RequestMsg(d, src, 0) : d \in DataIds}
    \cup {ResponseMsg(r, d) : r \in RequestIds, d \in DataIds}
    \cup {TransferMsg(l) : l \in TransferLists}

(* Peer src builds an envelope with one of the given tags and node n       *)
(* receives it                                                             *)
PeerSends(n, tags, maxMsgs) ==
  /\ Running(n)
  /\ Len(messages) - Cardinality(MintedBy(n)) < maxMsgs
  /\ \E src \in Nodes \ {n} : \E m \in {x \in PeerMsgs(src) : x.tag \in tags} :
       Receive(n, src, Len(messages) + 1,
               Append(messages, [m EXCEPT !.by = src, !.ts = now]))

(* An envelope that exists reaches node n (again): a duplicate of one a    *)
(* peer built, or a Store or Request of n's own that a peer relays         *)
PeerRelays(n, tags) ==
  /\ Running(n)
  /\ \E src \in Nodes \ {n} : \E id \in 1..Len(messages) :
       /\ messages[id].tag \in tags
       /\ messages[id].by # n \/ messages[id].tag \in {"store", "request"}
       /\ Receive(n, src, id, messages)

(* A peer relays to node n, for the first time, a Store or Request         *)
(* envelope that n built                                                   *)
RelaysBack(n, tags) ==
  /\ Running(n)
  /\ \E src \in Nodes \ {n} : \E id \in MintedBy(n) :
       /\ messages[id].tag \in tags
       /\ id \notin app[n].m_received_messages
       /\ Receive(n, src, id, messages)

AllTags == {"ping", "announce", "election", "fitness", "mode_change",
            "store", "request", "response", "transfer"}

InitRest ==
  /\ now = 0
  /\ events = <<>>
  /\ messages = <<>>
  /\ net = {}
  /\ step = StepRec("Init", 0, 0, 0, FALSE, <<>>, <<>>)
  /\ hist = [n \in Nodes |-> NoHistory]

(* The state after construction, node Self with capacities out of spaces; *)
(* Init takes the largest                                                  *)
AnySpaces == (0..StorageSpace) \X (0..BufferSpace)

InitWith(spaces) ==
  /\ \E sp \in spaces :
       app = [n \in Nodes |->
                IF n = Self THEN NewApp("NON_REPLICATING", sp[1], sp[2])
                ELSE NewApp("NON_REPLICATING", StorageSpace, BufferSpace)]
  /\ InitRest

Init == InitWith({<<StorageSpace, BufferSpace>>})


-----------------------------------------------------------------------------
(* Specification Spec: every kind of envelope.  Node Self from its start   *)
(* on, with one call of the application and the envelopes one peer-built   *)
(* envelope at a time.                                                     *)

DupMaxTime == 2
DupMaxCalls == 1
DupMaxMsgs == 1

Next ==
  \/ Start(Self, MaxStarts) /\ UNCHANGED net
  \/ (\E d \in DataIds : CallLookup(Self, d, DupMaxCalls)) /\ UNCHANGED net
  \/ (\E d \in DataIds : CallSave(Self, d, DupMaxCalls)) /\ UNCHANGED net
  \/ PeerSends(Self, AllTags, DupMaxMsgs) /\ UNCHANGED net
  \/ PeerRelays(Self, AllTags) /\ UNCHANGED net
  \/ Fire /\ UNCHANGED net
  \/ Tick(DupMaxTime) /\ UNCHANGED net

Spec == Init /\ [][Next]_vars

(* C3: delivering to a node an envelope whose id it has already received   *)
(* changes nothing: the node's fields (Storage, Buffer, profiles,          *)
(* replicas, pending lookups, votes, role, min_election_time, EventIds),   *)
(* the event queue, the envelopes built and the callback counts are        *)
(* unchanged, nothing is sent and no callback fires, whatever the tag.     *)
C3_DuplicateChangesNothing ==
  [][step'.dup =>
       /\ app' = app
       /\ events' = events
       /\ messages' = messages
       /\ hist' = hist
       /\ step'.out = <<>>
       /\ step'.cb = <<>>]_vars

(* A second Election envelope with the same id arrives when the cooldown   *)
(* is over, so that a first delivery would start an election               *)
C3_Witness ==
  /\ step.dup
  /\ step.op = "election"
  /\ now >= app[Self].m_min_election_time

-----------------------------------------------------------------------------
(* Specification SpecLookup: lookups.  Node Self calls Lookup, peers send  *)
(* Requests of their own and Responses to any Request, relay the Requests  *)
(* they were sent, and announce role changes (so that Self knows replica   *)
(* holders or none).                                                       *)

LookupMaxTime == 2
LookupMaxCalls == 1
LookupMaxMsgs == 2
LookupTags == {"request", "response", "mode_change"}

NextLookup ==
  \/ Start(Self, MaxStarts) /\ UNCHANGED net
  \/ (\E d \in DataIds : CallLookup(Self, d, LookupMaxCalls)) /\ UNCHANGED net
  \/ PeerSends(Self, LookupTags, LookupMaxMsgs) /\ UNCHANGED net
  \/ RelaysBack(Self, {"request"}) /\ UNCHANGED net
  \/ Fire /\ UNCHANGED net
  \/ Tick(LookupMaxTime) /\ UNCHANGED net

SpecLookup == Init /\ [][NextLookup]_vars

(* The Request envelopes node n built in a Lookup of its own *)
OwnRequests(n) == {r \in MintedBy(n) : messages[r].tag = "request"}

(* Node n has itself received (from a relaying peer) the Request envelope  *)
(* r that it built                                                         *)
RelayedBack(n, r) == messages[r].by = n /\ r \in app[n].m_received_messages

CallbackCount(n, r) ==
  CallbacksOf(hist[n].cbs, r).success + CallbacksOf(hist[n].cbs, r).failed

(* C1: for every request id, however Responses for it (several, early or   *)
(* late) and its LookupTimeout interleave, the node fires at most one      *)
(* callback in total: never success and failure both, never one twice.     *)
C1_AtMostOneCallback ==
  \A r \in DOMAIN hist[Self].cbs : CallbackCount(Self, r) <= 1

(* The same bound for the request ids whose own Request envelope has not   *)
(* come back to the node and been handled there again                      *)
OneCallbackUnlessRelayedBack ==
  \A r \in DOMAIN hist[Self].cbs :
    ~RelayedBack(Self, r) => CallbackCount(Self, r) <= 1

(* C2: every Lookup call results in exactly one callback: success when the *)
(* item is held locally (within the call) or when a Response arrives       *)
(* before the timeout, otherwise failure with the data id of the call.     *)
(* As a property of every state: a request of Self has had at most one     *)
(* callback, and one that has had none is pending with its timeout queued; *)
(* a failure callback carries the data id of its request; a Lookup of a    *)
(* locally held item fires success in the call.                            *)
C2_ExactlyOneCallback ==
  /\ \A r \in OwnRequests(Self) :
       /\ CallbackCount(Self, r) <= 1
       /\ CallbackCount(Self, r) = 0 =>
            /\ r \in app[Self].m_pendingLookups
            /\ \E k \in 1..Len(events) :
                 events[k].fn = "LookupTimeout" /\ events[k].arg = r
  /\ \A i \in 1..Len(step.cb) :
       step.cb[i].kind = "failed" => step.cb[i].arg = messages[step.cb[i].rid].data
  /\ (step.op = "Lookup" /\ CheckLocalStorage(World(Self), step.id) # 0) =>
       step.cb = <<[kind |-> "success", arg |-> step.id, rid |-> 0]>>

-----------------------------------------------------------------------------
(* Specification SpecStore: the containers.  Node Self saves items, peers  *)
(* send it Store and Transfer envelopes.                                   *)

StoreMaxTime == 2
StoreMaxCalls == 2
StoreMaxMsgs == 1
StoreTags == {"store", "transfer"}

NextStore ==
  \/ Start(Self, MaxStarts) /\ UNCHANGED net
  \/ (\E d \in DataIds : CallSave(Self, d, StoreMaxCalls)) /\ UNCHANGED net
  \/ PeerSends(Self, StoreTags, StoreMaxMsgs) /\ UNCHANGED net
  \/ Fire /\ UNCHANGED net
  \/ Tick(StoreMaxTime) /\ UNCHANGED net

SpecStore == InitWith(AnySpaces) /\ [][NextStore]_vars

(* The occupied slots of a container *)
Occupied(st) == {k \in 1..Len(st) : st[k] # 0}

NoIdTwice(st) ==
  \A j, k \in Occupied(st) : st[j] = st[k] => j = k

(* C4: in every reachable state, after any Save calls and received Store   *)
(* and Transfer envelopes, Storage holds at most storage_capacity items,   *)
(* Buffer at most buffer_capacity items, and no data id occupies two slots *)
(* of one container.                                                       *)
C4_CapacityAndNoDuplicates ==
  \A n \in Nodes :
    /\ Cardinality(Occupied(app[n].m_storage)) <= app[n].m_storageSpace
    /\ Cardinality(Occupied(app[n].m_buffer)) <= app[n].m_bufferSpace
    /\ NoIdTwice(app[n].m_storage)
    /\ NoIdTwice(app[n].m_buffer)

-----------------------------------------------------------------------------
(* Specification SpecRelay: relaying.  Peers announce role changes, ping   *)
(* and send Store envelopes to node Self, which relays them.               *)

RelayMaxTime == 2
RelayMaxMsgs == 2
RelayTags == {"store", "mode_change", "ping"}

NextRelay ==
  \/ Start(Self, MaxStarts) /\ UNCHANGED net
  \/ PeerSends(Self, RelayTags, RelayMaxMsgs) /\ UNCHANGED net
  \/ Fire /\ UNCHANGED net
  \/ Tick(RelayMaxTime) /\ UNCHANGED net

SpecRelay == Init /\ [][NextRelay]_vars

(* C10: when a node relays a Store envelope it received, the peer it got   *)
(* the envelope from is not among the recipients of the relay, also when   *)
(* that peer is in the node's replicas set.                                *)
C10_RelayNotBackToSource ==
  (step.op = "store" /\ ~step.dup) =>
    \A i \in 1..Len(step.out) : step.out[i].to # step.src

-----------------------------------------------------------------------------
(* Specification SpecElect: elections.  Node Self is started, stopped and  *)
(* started again; peers call elections, vote and announce themselves as    *)
(* replica holders, so that Self enters elections from StartApplication,   *)
(* from a received Election, from the watchdog and from its replicas set   *)
(* becoming empty, and decides them.                                       *)

ElectMaxTime == 4
ElectMaxStarts == 2
ElectMaxMsgs == 2
ElectTags == {"election", "fitness", "announce"}

NextElect ==
  \/ Start(Self, ElectMaxStarts) /\ UNCHANGED net
  \/ Stop(Self) /\ UNCHANGED net
  \/ PeerSends(Self, ElectTags, ElectMaxMsgs) /\ UNCHANGED net
  \/ Fire /\ UNCHANGED net
  \/ Tick(ElectMaxTime) /\ UNCHANGED net

SpecElect == Init /\ [][NextElect]_vars

(* C7: min_election_time of a node never decreases across any step,        *)
(* whichever way an election is entered, also across a Stop followed by a  *)
(* Start.                                                                  *)
C7_MinElectionTimeMonotone ==
  [][\A n \in Nodes :
       app'[n].m_min_election_time >= app[n].m_min_election_time]_vars

(* Node Self, stopped and started again at a later time, has entered the   *)
(* initial election of its second start                                    *)
C7_Witness ==
  /\ step.op = "StartApplication"
  /\ hist[Self].starts = 2
  /\ now > 0
  /\ app[Self].m_election_watchdog_event.at = now + m_missing_replication_timeout
  /\ app[Self].m_min_election_time = now + m_election_cooldown

(* The ModeChange envelopes among the datagrams of the last step *)
IsModeChange(o) == messages[o.id].tag = "mode_change"
ModeChangesSent == SelectSeq(step.out, IsModeChange)

-----------------------------------------------------------------------------
(* Specification SpecModeChange: the replicas set under ModeChange         *)
(* envelopes.  Node Self receives ModeChange(old, new) envelopes with any  *)
(* node ids (0 included) in the two fields, each with an id of its own.    *)

ModeChangeMaxTime == 2
ModeChangeMaxMsgs == 3
NodeIds == 0..NumNodes

(* HandleModeChange does not use the sender's address: one sender *)
ReceivesModeChange(n, maxMsgs) ==
  /\ Running(n)
  /\ Len(messages) - Cardinality(MintedBy(n)) < maxMsgs
  /\ \E old \in NodeIds : \E new \in NodeIds :
       LET src == CHOOSE p \in Nodes : p # n IN
       Receive(n, src, Len(messages) + 1,
               Append(messages, [ModeChangeMsg(old, new) EXCEPT !.by = src, !.ts = now]))

NextModeChange ==
  \/ Start(Self, MaxStarts) /\ UNCHANGED net
  \/ ReceivesModeChange(Self, ModeChangeMaxMsgs) /\ UNCHANGED net
  \/ Fire /\ UNCHANGED net
  \/ Tick(ModeChangeMaxTime) /\ UNCHANGED net

SpecModeChange == Init /\ [][NextModeChange]_vars

(* The ModeChange envelopes node n has handled; their ids are in the order *)
(* of their handling                                                       *)
ModeChangesHandled(n) ==
  {i \in app[n].m_received_messages : messages[i].tag = "mode_change"}

(* Envelope i announces x as a replica holder: a step-up of x, or a        *)
(* handover to x                                                           *)
Announces(i, x) ==
  /\ messages[i].b = x
  /\ messages[i].a = messages[i].b \/ messages[i].b # 0

(* Envelope i names x as the old holder of a step-down or of a handover *)
Retracts(i, x) ==
  /\ messages[i].a = x
  /\ messages[i].a # messages[i].b

AnnouncedAndKept(n) ==
  {x \in NodeIds :
     \E i \in ModeChangesHandled(n) :
       /\ Announces(i, x)
       /\ \A j \in ModeChangesHandled(n) : j > i => ~Retracts(j, x)}

(* C9: after any sequence of ModeChange(old,new) envelopes with distinct   *)
(* ids handled by a node, its replicas set is the set of node ids that     *)
(* were announced as new (step-up old = new, or target of a handover) and  *)
(* not afterwards named as old in a step-down (new = 0) or a handover.     *)
C9_ReplicasFollowModeChanges ==
  app[Self].m_replicating_nodes = AnnouncedAndKept(Self)

(* The last of three ModeChange envelopes was a handover that took out a   *)
(* holder announced before it                                              *)
C9_Witness ==
  /\ step.op = "mode_change"
  /\ Cardinality(ModeChangesHandled(Self)) = ModeChangeMaxMsgs
  /\ messages[step.id].b # 0
  /\ messages[step.id].a # messages[step.id].b
  /\ \E i \in ModeChangesHandled(Self) : i < step.id /\ Announces(i, messages[step.id].a)
  /\ messages[step.id].b \in app[Self].m_replicating_nodes
  /\ messages[step.id].a \notin app[Self].m_replicating_nodes

-----------------------------------------------------------------------------
(* Specification SpecSilence: replica holders falling silent.  Peers vote  *)
(* (so that Self stays NonReplicating), announce themselves as replica     *)
(* holders in ReplicaAnnounce and ModeChange envelopes, and then send      *)
(* nothing more.                                                           *)

SilenceMaxTime == 4
SilenceMaxMsgs == 3
SilenceTags == {"fitness", "announce", "mode_change"}

NextSilence ==
  \/ Start(Self, MaxStarts) /\ UNCHANGED net
  \/ PeerSends(Self, SilenceTags, SilenceMaxMsgs) /\ UNCHANGED net
  \/ Fire /\ UNCHANGED net
  \/ Tick(SilenceMaxTime) /\ UNCHANGED net

SpecSilence == Init /\ [][NextSilence]_vars

(* The ReplicaAnnounce and ModeChange envelopes node n has handled *)
HeardFromReplicas(n) ==
  {i \in app[n].m_received_messages : messages[i].tag \in {"announce", "mode_change"}}

(* The last of them made a replica holder known to n *)
LastHeard(n) == CHOOSE i \in HeardFromReplicas(n) : \A j \in HeardFromReplicas(n) : j <= i

LastHeardNamesReplica(n) ==
  \/ messages[LastHeard(n)].tag = "announce"
  \/ messages[LastHeard(n)].b # 0

(* The elections n has started (Election envelopes it broadcast) after the *)
(* time t                                                                  *)
ElectionsStartedAfter(n, t) ==
  {i \in MintedBy(n) : messages[i].tag = "election" /\ messages[i].ts > t}

(* C6: when every replica holder known to a Running NonReplicating node    *)
(* has been silent (no ReplicaAnnounce, no ModeChange) for longer than     *)
(* missing_replication_timeout, the node has started an election           *)
(* (broadcast Election and begun collecting) exactly once since, however   *)
(* the holder became known.                                                *)
C6_SilenceStartsOneElection ==
  ( /\ Running(Self)
    /\ app[Self].m_role = "NON_REPLICATING"
    /\ HeardFromReplicas(Self) # {}
    /\ LastHeardNamesReplica(Self)
    /\ now > messages[LastHeard(Self)].ts + m_missing_replication_timeout )
  => Cardinality(ElectionsStartedAfter(Self, messages[LastHeard(Self)].ts)) = 1

-----------------------------------------------------------------------------
(* Specification SpecNet: a static set of nodes within one radius, each    *)
(* running the application, with reliable delivery.  Every datagram a node *)
(* sends is put in flight to its destination (a broadcast: to every other  *)
(* node whose sockets exist) and is delivered before time passes.          *)

NetMaxTime == 4

(* The nodes a datagram reaches: a broadcast reaches every other node      *)
(* whose sockets exist                                                     *)
Receivers(o) ==
  IF o.to = 0 THEN {n \in Nodes : n # o.from /\ app[n].m_sockets}
  ELSE {n \in Nodes : n = o.to /\ app[n].m_sockets}

(* The datagrams of the last step, one per receiver *)
Sent ==
  UNION {{[to |-> n, from |-> step.out[j].from, id |-> step.out[j].id] :
            n \in Receivers(step.out[j])} : j \in 1..Len(step.out)}

(* The network has no latency: what is in flight is delivered before a     *)
(* node is started, an event runs or time passes                           *)
StartNet ==
  /\ net = {}
  /\ \E n \in Nodes : Start(n, MaxStarts) /\ net' = net \cup Sent'

Deliver ==
  \E d \in net :
    /\ Receive(d.to, d.from, d.id, messages)
    /\ net' = (net \ {d}) \cup Sent'

FireNet ==
  /\ net = {}
  /\ Fire
  /\ net' = net \cup Sent'

TickNet ==
  /\ net = {}
  /\ \A n \in Nodes : Running(n)
  /\ Tick(NetMaxTime)
  /\ UNCHANGED net

NextNet == StartNet \/ Deliver \/ FireNet \/ TickNet

SpecNet == Init /\ [][NextNet]_vars

(* Every node has decided an election and nothing is in flight or due *)
ElectionCycleComplete ==
  /\ \A n \in Nodes : Running(n) /\ hist[n].decided >= 1
  /\ net = {}
  /\ Due = {}

EveryNodeWinsItsElection ==
  ElectionCycleComplete => \A n \in Nodes : app[n].m_role = "REPLICATING"

-----------------------------------------------------------------------------
(* Specification SpecLocal: the node's own items and its lookups.  Node    *)
(* Self saves items and looks items up, peers send Requests of their own   *)
(* and Responses to any Request there is.                                  *)

LocalMaxTime == 2
LocalMaxCalls == 2
LocalMaxMsgs == 2
LocalTags == {"request", "response"}

NextLocal ==
  \/ Start(Self, MaxStarts) /\ UNCHANGED net
  \/ (\E d \in DataIds : CallSave(Self, d, LocalMaxCalls)) /\ UNCHANGED net
  \/ (\E d \in DataIds : CallLookup(Self, d, LocalMaxCalls)) /\ UNCHANGED net
  \/ PeerSends(Self, LocalTags, LocalMaxMsgs) /\ UNCHANGED net
  \/ Fire /\ UNCHANGED net
  \/ Tick(LocalMaxTime) /\ UNCHANGED net

SpecLocal == Init /\ [][NextLocal]_vars

(* C11: a Lookup of a data id the node holds (in Storage, or in Buffer,    *)
(* which CheckLocalStorage also searches) fires the success callback with  *)
(* that item within the call and nothing else happens: no envelope is      *)
(* built (so no request id is used up), nothing is sent, no pending lookup *)
(* is added and no event (timeout) is scheduled.                           *)
C11_LocalHitAnswersAtOnce ==
  [][(step'.op = "Lookup" /\ CheckLocalStorage(World(step'.node), step'.id) # 0) =>
       /\ step'.cb = <<[kind |-> "success", arg |-> step'.id, rid |-> 0]>>
       /\ step'.out = <<>>
       /\ messages' = messages
       /\ events' = events
       /\ app' = app]_vars

(* Lookup(d) was called on a node that has d in its Storage, after a Save  *)
(* of d, and the success callback fired in the call                        *)
C11_Witness ==
  /\ step.op = "Lookup"
  /\ GetItem(app[Self].m_storage, step.id) = step.id
  /\ step.cb # <<>>
  /\ \E i \in MintedBy(Self) : messages[i].tag = "store" /\ messages[i].data = step.id

(* The request id a Response envelope answers *)
AnswersTo(id) == messages[id].val

(* C12: a Response whose request id is not pending at the node that        *)
(* receives it (answered before, timed out before, or never asked by this  *)
(* node) fires no callback and leaves the pending lookups, Storage and     *)
(* Buffer of the node as they were.                                        *)
C12_StaleResponseIgnored ==
  [][(/\ step'.op = "response"
      /\ messages'[step'.id].val \notin app[step'.node].m_pendingLookups) =>
       /\ step'.cb = <<>>
       /\ app'[step'.node].m_pendingLookups = app[step'.node].m_pendingLookups
       /\ app'[step'.node].m_storage = app[step'.node].m_storage
       /\ app'[step'.node].m_buffer = app[step'.node].m_buffer]_vars

(* A Response arrives for a request of the node's own that has had its     *)
(* callback already and is pending no more, at a node that holds an item   *)
C12_Witness ==
  /\ step.op = "response"
  /\ ~step.dup
  /\ step.cb = <<>>
  /\ AnswersTo(step.id) \in OwnRequests(Self)
  /\ AnswersTo(step.id) \notin app[Self].m_pendingLookups
  /\ CallbackCount(Self, AnswersTo(step.id)) = 1
  /\ GetFreeSpace(app[Self].m_storage) < StorageSpace

-----------------------------------------------------------------------------
(* Specification SpecSave: Save and its recipients.  Node Self saves items *)
(* (more of them than its Storage takes); pings and role changes of the    *)
(* peers give it profiles and replica holders.                             *)

SaveMaxTime == 2
SaveMaxCalls == 3
SaveMaxMsgs == 2
SaveTags == {"ping", "mode_change"}

NextSave ==
  \/ Start(Self, MaxStarts) /\ UNCHANGED net
  \/ (\E d \in DataIds : CallSave(Self, d, SaveMaxCalls)) /\ UNCHANGED net
  \/ PeerSends(Self, SaveTags, SaveMaxMsgs) /\ UNCHANGED net
  \/ Fire /\ UNCHANGED net
  \/ Tick(SaveMaxTime) /\ UNCHANGED net

SpecSave == Init /\ [][NextSave]_vars

(* The peers whose recorded profile reaches the forwarding threshold *)
EligiblePeers(a) ==
  {p \in DOMAIN a.m_peerProfiles : a.m_peerProfiles[p] >= m_forwardingThreshold}

(* The nodes the datagrams of the last call were addressed to *)
SentTo(out) == {out[i].to : i \in 1..Len(out)}

(* C13: Save(item) returns true exactly when Storage had a free slot just  *)
(* before the call, and then the free space is one less and the item is in *)
(* Storage; it returns false and leaves Storage as it was when Storage was *)
(* full; either way the Store envelope of the item is built and sent to    *)
(* every known replica and to every peer whose profile reaches the         *)
(* forwarding threshold, and to nobody else.                               *)
C13_SaveStatusAndDissemination ==
  [][step'.op = "Save" =>
       LET n == step'.node
           free == GetFreeSpace(app[n].m_storage)
       IN  /\ SaveStatus(World(n)) <=> free >= 1
           /\ free >= 1 =>
                 /\ GetFreeSpace(app'[n].m_storage) = free - 1
                 /\ GetItem(app'[n].m_storage, step'.id) = step'.id
           /\ free = 0 => app'[n].m_storage = app[n].m_storage
           /\ messages' = Append(messages, [StoreMsg(step'.id) EXCEPT !.by = n, !.ts = now])
           /\ \A i \in 1..Len(step'.out) :
                 step'.out[i].id = Len(messages') /\ step'.out[i].chan = "unicast"
           /\ SentTo(step'.out) = app[n].m_replicating_nodes \cup EligiblePeers(app[n])]_vars

(* Save was called with Storage full, by a node that knows a replica       *)
(* holder and a peer with a profile above the threshold that is no replica *)
(* holder, and the Store went out to both                                  *)
C13_Witness ==
  /\ step.op = "Save"
  /\ GetFreeSpace(app[Self].m_storage) = 0
  /\ Cardinality({i \in MintedBy(Self) : messages[i].tag = "store"}) > StorageSpace
  /\ app[Self].m_replicating_nodes # {}
  /\ EligiblePeers(app[Self]) \ app[Self].m_replicating_nodes # {}
  /\ Len(step.out) = 2

-----------------------------------------------------------------------------
(* Specification SpecLife: the lifecycle.  Node Self is started and        *)
(* stopped, any number of times in any state, saves and looks up items in  *)
(* between, and hears pings and replica announcements (which arm the       *)
(* profile and replica expiry timers).                                     *)

LifeMaxTime == 4
LifeMaxStarts == 2
LifeMaxCalls == 1
LifeMaxMsgs == 1
LifeTags == {"ping", "announce"}

NextLife ==
  \/ Start(Self, LifeMaxStarts) /\ UNCHANGED net
  \/ Stop(Self) /\ UNCHANGED net
  \/ (\E d \in DataIds : CallSave(Self, d, LifeMaxCalls)) /\ UNCHANGED net
  \/ (\E d \in DataIds : CallLookup(Self, d, LifeMaxCalls)) /\ UNCHANGED net
  \/ PeerSends(Self, LifeTags, LifeMaxMsgs) /\ UNCHANGED net
  \/ Fire /\ UNCHANGED net
  \/ Tick(LifeMaxTime) /\ UNCHANGED net

SpecLife == Init /\ [][NextLife]_vars

(* The functions the simulator invokes as events *)
EventFns ==
  {"SchedulePing", "ScheduleReplicaHolderAnnouncement", "CheckElectionResults",
   "TriggerElection", "LookupTimeout", "ProfileTimeout", "ReplicationNodeTimeout"}

(* C14: an event that comes due at a node that is Stopped (every such      *)
(* event was scheduled before the Stop, a stopped node schedules none) has *)
(* no effect: the role, the profiles, the replicas, the votes and the      *)
(* pending lookups of the node are unchanged, nothing is sent and neither  *)
(* callback fires.                                                         *)
C14_NoTimerEffectAfterStop ==
  [][(step'.op \in EventFns /\ app[step'.node].m_state = "STOPPED") =>
       LET n == step'.node
       IN  /\ app'[n].m_role = app[n].m_role
           /\ app'[n].m_peerProfiles = app[n].m_peerProfiles
           /\ app'[n].m_replicating_nodes = app[n].m_replicating_nodes
           /\ app'[n].m_peerFitness = app[n].m_peerFitness
           /\ app'[n].m_pendingLookups = app[n].m_pendingLookups
           /\ step'.out = <<>>
           /\ step'.cb = <<>>]_vars

(* The same for the events whose EventId StopApplication cancels or whose  *)
(* function tests m_state: they do not run, or run and return at once      *)
StoppedNodeIgnoresGuardedTimers ==
  [][(/\ step'.op \in EventFns \ {"CheckElectionResults", "LookupTimeout"}
      /\ app[step'.node].m_state = "STOPPED") =>
       (app' = app /\ step'.out = <<>> /\ step'.cb = <<>>)]_vars

(* What a lifecycle call that is to be ignored leaves alone: the node, the *)
(* event queue, the envelopes; and it sends nothing and calls nothing back *)
NothingHappens ==
  /\ app' = app
  /\ events' = events
  /\ messages' = messages
  /\ step'.out = <<>>
  /\ step'.cb = <<>>

(* C15: StartApplication on a Running node changes nothing (no new events, *)
(* no election, Storage and Buffer as they were); StopApplication on a     *)
(* Stopped node leaves it Stopped and changes nothing; StopApplication on  *)
(* a NotStarted node leaves it NotStarted and changes nothing.             *)
C15_LifecycleIdempotent ==
  [][/\ (step'.op = "StartApplication" /\ app[step'.node].m_state = "RUNNING")
          => NothingHappens
     /\ (step'.op = "StopApplication" /\ app[step'.node].m_state = "STOPPED")
          => NothingHappens
     /\ (step'.op = "StopApplication" /\ app[step'.node].m_state = "NOT_STARTED")
          => NothingHappens]_vars

(* StartApplication was called a second time on a node that has been       *)
(* running since its first start and has saved an item in the meantime     *)
C15_Witness ==
  /\ step.op = "StartApplication"
  /\ hist[Self].starts = 2
  /\ app[Self].m_state = "RUNNING"
  /\ GetFreeSpace(app[Self].m_storage) < StorageSpace
  /\ events # <<>>

-----------------------------------------------------------------------------
(* Specification SpecCarry: Storage and Buffer together.  Node Self saves  *)
(* an item, peers send it Store and Transfer envelopes and pings (a ping   *)
(* with a higher profile makes it hand over its Buffer), and the decision  *)
(* of its first election changes its role.                                 *)

CarryMaxTime == 2
CarryMaxCalls == 1
CarryMaxMsgs == 2
CarryTags == {"store", "transfer", "ping"}

NextCarry ==
  \/ Start(Self, MaxStarts) /\ UNCHANGED net
  \/ (\E d \in DataIds : CallSave(Self, d, CarryMaxCalls)) /\ UNCHANGED net
  \/ PeerSends(Self, CarryTags, CarryMaxMsgs) /\ UNCHANGED net
  \/ Fire /\ UNCHANGED net
  \/ Tick(CarryMaxTime) /\ UNCHANGED net

SpecCarry == Init /\ [][NextCarry]_vars

(* The data ids a container holds *)
IdsIn(st) == {st[k] : k \in Occupied(st)}

(* C16: in every reachable state no data id is both in the Storage and in  *)
(* the Buffer of the node, whatever Save calls, Store, Transfer and ping   *)
(* envelopes and role changes came before.                                 *)
C16_StorageAndBufferDisjoint ==
  IdsIn(app[Self].m_storage) \cap IdsIn(app[Self].m_buffer) = {}

(* The node saved item d while NonReplicating and holds it, and has just   *)
(* received, as a carrier still, a Store envelope with the same item d     *)
C16_Witness ==
  /\ step.op = "store"
  /\ ~step.dup
  /\ app[Self].m_role = "NON_REPLICATING"
  /\ messages[step.id].data \in IdsIn(app[Self].m_storage)
  /\ \E i \in MintedBy(Self) :
       messages[i].tag = "store" /\ messages[i].data = messages[step.id].data

(* StoreItem for each item of a list in order; once the container is full  *)
(* no further item goes in                                                 *)
RECURSIVE StoreAll(_, _)
StoreAll(st, items) ==
  IF items = <<>> THEN st ELSE StoreAll(StoreItem(st, Head(items)), Tail(items))

(* C17: after a node has handled a Transfer envelope, the items it carried *)
(* are, in order and until the container is full, in the node's own        *)
(* Storage if it is Replicating and in its own Buffer if NonReplicating    *)
(* (the other container is as before), and each item that went in can be   *)
(* found by CheckLocalStorage, as a later Lookup or Request does.          *)
C17_TransferredItemsAreKept ==
  [][(step'.op = "transfer" /\ ~step'.dup) =>
       LET n == step'.node
           items == messages'[step'.id].items
           kept == StoreAll(TransferTarget(app[n]), items)
       IN  /\ TransferTarget(app'[n]) = kept
           /\ app'[n].m_role = app[n].m_role
           /\ \A d \in IdsIn(kept) : CheckLocalStorage([a |-> app'[n]], d) = d]_vars

-----------------------------------------------------------------------------
(* Specification SpecAsk: a lookup answered by a replica holder.  The      *)
(* nodes of SpecNet, with the same reliable delivery; node Holder saves an *)
(* item and node Asker looks an item up.                                   *)

AskMaxTime == 4
AskMaxCalls == 1
Holder == 1
Asker == 2

(* The applications are installed and started in node order               *)
(* (RhpmanAppHelper::Install, ApplicationContainer::Start)                 *)
StartAsk ==
  /\ net = {}
  /\ \E n \in Nodes :
       /\ \A m \in 1..(n - 1) : Running(m)
       /\ Start(n, MaxStarts)
  /\ net' = net \cup Sent'

(* The calls of the applications come between the instants of the timers, *)
(* when every node runs and nothing is due or in flight                    *)
Quiet ==
  /\ net = {}
  /\ Due = {}
  /\ \A n \in Nodes : Running(n)

SaveNet ==
  /\ Quiet
  /\ \E d \in DataIds : CallSave(Holder, d, AskMaxCalls)
  /\ net' = net \cup Sent'

(* Asker looks an item up once it knows a replica holder *)
LookupNet ==
  /\ Quiet
  /\ app[Asker].m_replicating_nodes # {}
  /\ \E d \in DataIds : CallLookup(Asker, d, AskMaxCalls)
  /\ net' = net \cup Sent'

TickAsk ==
  /\ net = {}
  /\ \A n \in Nodes : Running(n)
  /\ Tick(AskMaxTime)
  /\ UNCHANGED net

NextAsk == StartAsk \/ SaveNet \/ LookupNet \/ Deliver \/ FireNet \/ TickAsk

SpecAsk == Init /\ [][NextAsk]_vars

(* The last step sent the envelope id to node dest, as a unicast, k times *)
UnicastsTo(out, dest, id) ==
  Cardinality({i \in 1..Len(out) :
                 out[i].to = dest /\ out[i].id = id /\ out[i].chan = "unicast"})

(* Node n2 calls Lookup(d), does not hold d and knows replica holders:     *)
(* the Request it builds goes to each of them                              *)
AsksItsReplicaHolders ==
  (/\ step'.op = "Lookup"
   /\ CheckLocalStorage(World(step'.node), step'.id) = 0
   /\ app[step'.node].m_replicating_nodes # {}) =>
     /\ Len(messages') = Len(messages) + 1
     /\ messages'[Len(messages')] = [RequestMsg(step'.id, step'.node, 0)
                                        EXCEPT !.by = step'.node, !.ts = now]
     /\ \A n1 \in app[step'.node].m_replicating_nodes :
          UnicastsTo(step'.out, n1, Len(messages')) = 1

(* Node n1 receives a Request for an item it holds in Storage: it sends    *)
(* one Response with the request id and the item to the requestor and      *)
(* nothing else (the Request is not relayed)                               *)
HolderAnswersOnce ==
  (/\ step'.op = "request"
   /\ ~step'.dup
   /\ GetItem(app[step'.node].m_storage, messages[step'.id].data) # 0) =>
     /\ Len(messages') = Len(messages) + 1
     /\ messages'[Len(messages')] = [ResponseMsg(step'.id, messages[step'.id].data)
                                        EXCEPT !.by = step'.node, !.ts = now]
     /\ step'.out = <<[to |-> messages[step'.id].a, id |-> Len(messages'),
                       from |-> step'.node, chan |-> "unicast"]>>

(* The Response reaches the node that asked while its request is pending:  *)
(* the success callback fires with the item                                *)
ResponseSucceeds ==
  (/\ step'.op = "response"
   /\ ~step'.dup
   /\ messages[step'.id].val \in app[step'.node].m_pendingLookups) =>
     step'.cb = <<[kind |-> "success", arg |-> messages[step'.id].data,
                   rid |-> messages[step'.id].val]>>

(* No request that has had its success callback has a failure callback *)
NoFailureAfterSuccess ==
  \A n \in Nodes : \A r \in DOMAIN hist[n].cbs :
    hist[n].cbs[r].success >= 1 => hist[n].cbs[r].failed = 0

(* C18: N2 knows N1 as a replica holder and N1 holds item d in Storage.    *)
(* N2.Lookup(d) sends a Request to N1; N1 answers with exactly one         *)
(* Response, carrying the request id, addressed to N2, and does not relay  *)
(* the Request; when the Response is delivered the success callback of N2  *)
(* fires with d, and no failure callback fires for that request.           *)
C18_ReplicaHolderAnswersLookup ==
  [][/\ AsksItsReplicaHolders
     /\ HolderAnswersOnce
     /\ ResponseSucceeds
     /\ NoFailureAfterSuccess']_vars

(* The steps of C18 one by one, without the clause on the failure callback *)
LookupAnsweredByHolder ==
  [][AsksItsReplicaHolders /\ HolderAnswersOnce /\ ResponseSucceeds]_vars

-----------------------------------------------------------------------------
(* Ties at the decision of an election (specification SpecElect)           *)

(* The votes node n has recorded, and whether the highest of them equals   *)
(* the node's own fitness                                                  *)
Votes(a) == {a.m_peerFitness[p] : p \in DOMAIN a.m_peerFitness}

Tied(a) ==
  /\ Votes(a) # {}
  /\ \A v \in Votes(a) : v <= a.m_myFitness
  /\ a.m_myFitness \in Votes(a)

(* C19: when the decision of an election runs on a node whose highest      *)
(* recorded peer vote equals its own fitness, the role of the node after   *)
(* the decision is its role before: a tied NonReplicating node stays       *)
(* NonReplicating, a tied Replicating node stays Replicating.              *)
C19_TieKeepsRole ==
  [][(/\ step'.op = "CheckElectionResults"
      /\ Running(step'.node)
      /\ Tied(app[step'.node])) =>
       app'[step'.node].m_role = app[step'.node].m_role]_vars

(* The half of C19 the code keeps: a tied Replicating node stays           *)
(* Replicating                                                             *)
TiedReplicaHolderStays ==
  [][(/\ step'.op = "CheckElectionResults"
      /\ Running(step'.node)
      /\ Tied(app[step'.node])
      /\ app[step'.node].m_role = "REPLICATING") =>
       app'[step'.node].m_role = "REPLICATING"]_vars

-----------------------------------------------------------------------------
(* Specification SpecSigma: the recipients of SemiProbabilisticSend as a   *)
(* function of sigma.  Node Self has been started and has built a Store    *)
(* envelope; it has any table of peer profiles and any set of replica      *)
(* holders, and sends the envelope for any relay source and any sigma.     *)

SigmaValues == {0, 2, 4, 5, 7, 10}
ProfileTables == UNION {[S -> SigmaValues] : S \in SUBSET Peers}

InitSigma ==
  /\ InitRest
  /\ \E profiles \in ProfileTables : \E replicas \in SUBSET Nodes :
       app = [n \in Nodes |->
                IF n = Self
                THEN [NewApp("NON_REPLICATING", StorageSpace, BufferSpace)
                        EXCEPT !.m_state = "RUNNING", !.m_sockets = TRUE,
                               !.m_address = Self,
                               !.m_storage = StorageInit(StorageSpace),
                               !.m_buffer = StorageInit(BufferSpace),
                               !.m_peerProfiles = profiles,
                               !.m_replicating_nodes = replicas]
                ELSE NewApp("NON_REPLICATING", StorageSpace, BufferSpace)]

(* The node builds a Store envelope and sends it for relay source srcAddr  *)
(* and threshold sigma, as Save and the relays of HandleStore and          *)
(* RunProbabilisticLookup do; the step keeps sigma in its id field         *)
Disseminate(n) ==
  \E srcAddr \in NodeIds : \E sigma \in SigmaValues :
    /\ messages = <<>>
    /\ messages' = Append(messages, [StoreMsg(1) EXCEPT !.by = n, !.ts = now])
    /\ LET w == [World(n) EXCEPT !.msgs = messages']
           r == SemiProbabilisticSend(w, Len(messages'), srcAddr, sigma)
       IN  /\ step' = StepRec("SemiProbabilisticSend", n, srcAddr, sigma, FALSE, r.out, r.cb)
           /\ app' = [app EXCEPT ![n] = r.a]
    /\ UNCHANGED <<now, events, net, hist>>

NextSigma == Disseminate(Self)

SpecSigma == InitSigma /\ [][NextSigma]_vars

(* The nodes SemiProbabilisticSend sends to, for the tables of node n *)
Recipients(n, srcAddr, sigma) ==
  SentTo(SemiProbabilisticSend(World(n), 1, srcAddr, sigma).out)

(* C20: with the profiles, the replicas and the relay source fixed,        *)
(* raising sigma adds no recipient: for sigma1 <= sigma2 the set of        *)
(* recipients for sigma2 is a subset of the set for sigma1.                *)
C20_SigmaMonotone ==
  \A srcAddr \in NodeIds : \A sigma1, sigma2 \in SigmaValues :
    sigma1 <= sigma2 =>
      Recipients(Self, srcAddr, sigma2) \subseteq Recipients(Self, srcAddr, sigma1)

(* The node has sent an envelope with a sigma (kept in step.id) that one   *)
(* peer's profile reaches and another's does not, to the first and to a    *)
(* replica holder; with a lower sigma it would have sent to the other too  *)
C20_Witness ==
  /\ step.op = "SemiProbabilisticSend"
  /\ SentTo(step.out) = Recipients(Self, step.src, step.id)
  /\ app[Self].m_replicating_nodes # {}
  /\ SentTo(step.out) \ app[Self].m_replicating_nodes # {}
  /\ \E sigma1 \in SigmaValues :
       /\ sigma1 < step.id
       /\ Recipients(Self, step.src, sigma1) \ SentTo(step.out) # {}

-----------------------------------------------------------------------------
(* Pending lookups and their timeouts (specifications SpecAsk, SpecLookup)  *)

(* The queued LookupTimeout events of node n for request r *)
TimeoutsOf(n, r) ==
  {k \in 1..Len(events) :
     events[k].node = n /\ events[k].fn = "LookupTimeout" /\ events[k].arg = r}

(* C21: in every reachable state each pending lookup of a node has         *)
(* exactly one LookupTimeout event queued, never none and never two, also  *)
(* after the node's own Request has been relayed back to it and handled.   *)
C21_OneTimeoutPerPendingLookup ==
  \A n \in Nodes : \A r \in app[n].m_pendingLookups :
    Cardinality(TimeoutsOf(n, r)) = 1

(* The half of C21 the code keeps: a pending lookup is never without a     *)
(* queued timeout                                                          *)
PendingLookupHasTimeout ==
  \A n \in Nodes : \A r \in app[n].m_pendingLookups : TimeoutsOf(n, r) # {}

-----------------------------------------------------------------------------
(* The decision of an election (specification SpecElect)                   *)

(* C22: when the decision of an election has run, the node is Replicating  *)
(* if and only if none of the votes it had recorded was strictly greater   *)
(* than its own fitness, NonReplicating otherwise, and its table of votes  *)
(* is empty.                                                               *)
C22_DecisionByStrictMajority ==
  [][(step'.op = "CheckElectionResults" /\ ~Crashed') =>
       LET a == app[step'.node]
           beaten == \E v \in Votes(a) : v > a.m_myFitness
       IN  /\ app'[step'.node].m_role =
                 (IF beaten THEN "NON_REPLICATING" ELSE "REPLICATING")
           /\ app'[step'.node].m_peerFitness = EmptyMap]_vars

(* A decision has made a replica holder step down (it sent its ModeChange) *)
(* and has left the table of votes empty                                   *)
C22_Witness ==
  /\ step.op = "CheckElectionResults"
  /\ hist[Self].decided >= 2
  /\ app[Self].m_role = "NON_REPLICATING"
  /\ app[Self].m_peerFitness = EmptyMap
  /\ \E i \in 1..Len(step.out) : messages[step.out[i].id].tag = "mode_change"

-----------------------------------------------------------------------------
(* Entering an election (specification SpecElect)                          *)

(* The queued decisions (CheckElectionResults events) of node n *)
DecisionsOf(evs, n) ==
  {k \in 1..Len(evs) : evs[k].node = n /\ evs[k].fn = "CheckElectionResults"}

(* The step is a call on node n in which RunElection ran: the calls that   *)
(* can reach it are StartApplication, the handlers of Election and         *)
(* ModeChange, the watchdog and the expiry of a replica holder, and each   *)
(* run of RunElection on a running node queues a decision                  *)
EntersElection(n) ==
  /\ step'.node = n
  /\ step'.op \in {"StartApplication", "election", "mode_change",
                   "TriggerElection", "ReplicationNodeTimeout"}
  /\ Cardinality(DecisionsOf(events', n)) > Cardinality(DecisionsOf(events, n))

(* The Fitness envelopes broadcast on the election channel in the step *)
FitnessSent ==
  {i \in 1..Len(step'.out) :
     /\ messages'[step'.out[i].id].tag = "fitness"
     /\ step'.out[i].chan = "election"}

(* One decision more is queued, for election_timeout from now *)
OneDecisionScheduled(n) ==
  /\ Cardinality(DecisionsOf(events', n)) = Cardinality(DecisionsOf(events, n)) + 1
  /\ events'[Len(events')] = Event(n, "CheckElectionResults", 0, now + m_election_timeout)

(* C23: every time a node enters an election, whatever the trigger, it     *)
(* computes its fitness F, broadcasts exactly one Fitness(F) envelope on   *)
(* the election channel and schedules exactly one decision for now +       *)
(* election_timeout.                                                       *)
C23_ElectionEntryBroadcastsFitness ==
  [][\A n \in Nodes : EntersElection(n) =>
       /\ Cardinality(FitnessSent) = 1
       /\ \A i \in FitnessSent : messages'[step'.out[i].id].val = app'[n].m_myFitness
       /\ OneDecisionScheduled(n)]_vars

(* The part of C23 the code keeps: the fitness is computed (it is 0) and   *)
(* one decision is scheduled                                               *)
ElectionEntrySchedulesDecision ==
  [][\A n \in Nodes : EntersElection(n) =>
       /\ app'[n].m_myFitness = 0
       /\ app'[n].m_min_election_time = now + m_election_cooldown
       /\ FitnessSent = {}
       /\ OneDecisionScheduled(n)]_vars

(* C24: two consecutive election entries of a node, whatever their         *)
(* triggers (the initial election of a StartApplication after a restart    *)
(* included), are at least election_cooldown apart.  The earlier entry set *)
(* m_min_election_time to its time plus the cooldown, so the later one     *)
(* must not come before m_min_election_time.                               *)
C24_ElectionEntriesCooldownApart ==
  [][\A n \in Nodes : EntersElection(n) => now >= app[n].m_min_election_time]_vars

(* The same for the entries other than the one of StartApplication *)
GuardedEntriesCooldownApart ==
  [][\A n \in Nodes : (EntersElection(n) /\ step'.op # "StartApplication") =>
       now >= app[n].m_min_election_time]_vars

(* C25: an Election envelope received while now < min_election_time is     *)
(* dropped: min_election_time, the own fitness, the votes and the role     *)
(* keep their values, no decision is scheduled (the event queue is as it   *)
(* was) and nothing is sent.  One received while now >= min_election_time  *)
(* makes the node enter an election (min_election_time is set, one         *)
(* decision is scheduled) without an Election broadcast of its own.        *)
C25_ElectionRequestAndCooldown ==
  [][(step'.op = "election" /\ ~step'.dup) =>
       LET n == step'.node
       IN  IF now < app[n].m_min_election_time
           THEN /\ app'[n].m_min_election_time = app[n].m_min_election_time
                /\ app'[n].m_myFitness = app[n].m_myFitness
                /\ app'[n].m_peerFitness = app[n].m_peerFitness
                /\ app'[n].m_role = app[n].m_role
                /\ events' = events
                /\ step'.out = <<>>
           ELSE /\ app'[n].m_min_election_time = now + m_election_cooldown
                /\ OneDecisionScheduled(n)
                /\ \A i \in 1..Len(step'.out) :
                     messages'[step'.out[i].id].tag # "election"]_vars

(* An Election envelope was received and dropped in the cooldown of the    *)
(* initial election: the decision of that election is the only one queued  *)
C25_Witness ==
  /\ step.op = "election"
  /\ ~step.dup
  /\ hist[Self].starts = 1
  /\ hist[Self].decided = 0
  /\ now < app[Self].m_min_election_time
  /\ Cardinality(DecisionsOf(events, Self)) = 1

(* An Election envelope was received after the cooldown and the node       *)
(* entered an election                                                     *)
ElectionRequestAccepted ==
  /\ step.op = "election"
  /\ ~step.dup
  /\ hist[Self].starts = 1
  /\ hist[Self].decided = 0
  /\ Cardinality(DecisionsOf(events, Self)) = 2

-----------------------------------------------------------------------------
(* The replica watchdog (specification SpecElect)                          *)

(* The queued watchdog events (TriggerElection, as ScheduleElectionWatchdog *)
(* schedules it) of node n                                                 *)
WatchdogsOf(evs, n) ==
  {k \in 1..Len(evs) : evs[k].node = n /\ evs[k].fn = "TriggerElection"}

(* C26: after every ReplicaAnnounce a Running node has handled, its        *)
(* replica watchdog is pending and set to expire missing_replication_      *)
(* timeout after the announce (re-armed, not only cancelled), and a node   *)
(* never has more than one watchdog pending.                               *)
C26_AnnounceRearmsWatchdog ==
  [][/\ (step'.op = "announce" /\ ~step'.dup /\ Running(step'.node)) =>
          \E k \in WatchdogsOf(events', step'.node) :
            events'[k].at = now + m_missing_replication_timeout
     /\ \A n \in Nodes : Cardinality(WatchdogsOf(events', n)) <= 1]_vars

(* The part of C26 the code keeps: at most one watchdog is pending, and    *)
(* none is after a ReplicaAnnounce                                         *)
AnnounceCancelsWatchdog ==
  [][/\ (step'.op = "announce" /\ ~step'.dup /\ Running(step'.node)) =>
          WatchdogsOf(events', step'.node) = {}
     /\ \A n \in Nodes : Cardinality(WatchdogsOf(events', n)) <= 1]_vars

-----------------------------------------------------------------------------
(* Expiry timers of the table entries (specification SpecLife)             *)

(* The queued events of node n that run fn for the entry of peer p *)
ExpiriesOf(n, fn, p) ==
  {k \in 1..Len(events) :
     events[k].node = n /\ events[k].fn = fn /\ events[k].arg = p}

(* Every profile and every replica holder node n has recorded has an       *)
(* expiry event queued, due no later than the timeout from now             *)
EntriesHaveTimers(n) ==
  /\ \A p \in DOMAIN app[n].m_peerProfiles :
       \E k \in ExpiriesOf(n, "ProfileTimeout", p) :
         events[k].at <= now + m_profile_timeout
  /\ \A p \in app[n].m_replicating_nodes :
       \E k \in ExpiriesOf(n, "ReplicationNodeTimeout", p) :
         events[k].at <= now + m_missing_replication_timeout

(* C27: in every reachable state each entry of the profiles and each entry *)
(* of the replicas of a node has a pending expiry timer of its own, so     *)
(* that it is gone at the latest one timeout after it was last inserted or *)
(* refreshed; also for entries that are there across a Stop and a restart. *)
C27_EntriesHaveExpiryTimers ==
  \A n \in Nodes : EntriesHaveTimers(n)

(* The same for a node in its first run, which has never been stopped, and *)
(* has its entries from pings and ReplicaAnnounces                         *)
FirstRunEntriesHaveTimers ==
  \A n \in Nodes : (Running(n) /\ hist[n].starts = 1) => EntriesHaveTimers(n)

-----------------------------------------------------------------------------
(* The ReplicaAnnounce schedule of a replica holder (SpecElect)            *)

(* The queued events of node n that send its next ReplicaAnnounce *)
AnnouncementsOf(evs, n) ==
  {k \in 1..Len(evs) :
     evs[k].node = n /\ evs[k].fn = "ScheduleReplicaHolderAnnouncement"}

(* The last step of node n has broadcast ModeChange(n, n) *)
TakesOverSent(n) ==
  \E i \in 1..Len(step.out) :
    /\ step.out[i].from = n
    /\ messages[step.out[i].id].tag = "mode_change"
    /\ messages[step.out[i].id].b = n

(* The last step of node n has broadcast a ReplicaAnnounce *)
AnnounceSent(n) ==
  \E i \in 1..Len(step.out) :
    /\ step.out[i].from = n
    /\ messages[step.out[i].id].tag = "announce"

(* C28: a node broadcasts ModeChange(self,self) and starts a periodic      *)
(* ReplicaAnnounce schedule only at an election decision that it wins      *)
(* while its role is NonReplicating; a winning node that is Replicating    *)
(* already broadcasts no ModeChange and starts no further schedule, so at  *)
(* most one ReplicaAnnounce schedule is active per node.                   *)
C28_OneAnnounceSchedulePerNode ==
  [][\A n \in Nodes :
       (step'.node = n /\ ~Crashed')
       => /\ (\/ TakesOverSent(n)'
              \/ Cardinality(AnnouncementsOf(events', n))
                   > Cardinality(AnnouncementsOf(events, n)))
             => /\ step'.op = "CheckElectionResults"
                /\ app[n].m_role = "NON_REPLICATING"
                /\ app'[n].m_role = "REPLICATING"
          /\ Cardinality(AnnouncementsOf(events', n)) <= 1]_vars

(* What the code keeps: ModeChange(self,self) and a new ReplicaAnnounce    *)
(* schedule come from a won election decision only, and every won          *)
(* decision, whatever the role before it, broadcasts both envelopes and    *)
(* adds a schedule                                                         *)
EveryWinStartsSchedule ==
  [][\A n \in Nodes :
       (step'.node = n /\ ~Crashed')
       => /\ (\/ TakesOverSent(n)'
              \/ Cardinality(AnnouncementsOf(events', n))
                   > Cardinality(AnnouncementsOf(events, n)))
             => /\ step'.op = "CheckElectionResults"
                /\ app'[n].m_role = "REPLICATING"
          /\ (step'.op = "CheckElectionResults" /\ app'[n].m_role = "REPLICATING")
             => /\ TakesOverSent(n)'
                /\ AnnounceSent(n)'
                /\ Cardinality(AnnouncementsOf(events', n))
                     = Cardinality(AnnouncementsOf(events, n)) + 1]_vars

-----------------------------------------------------------------------------
(* Specification SpecStepDown: a replica holder that loses an election.    *)
(* Node Self is started once; peers call elections, vote and announce      *)
(* themselves as replica holders, so that Self wins elections, loses one   *)
(* and lives on until the ReplicaAnnounce events scheduled by its wins are *)
(* due, and so that it is between two elections for a while.               *)

StepDownMaxTime == 5
StepDownMaxStarts == 1
StepDownMaxMsgs == 3
StepDownTags == {"election", "fitness", "announce"}

NextStepDown ==
  \/ Start(Self, StepDownMaxStarts) /\ UNCHANGED net
  \/ PeerSends(Self, StepDownTags, StepDownMaxMsgs) /\ UNCHANGED net
  \/ Fire /\ UNCHANGED net
  \/ Tick(StepDownMaxTime) /\ UNCHANGED net

SpecStepDown == Init /\ [][NextStepDown]_vars

(* C29: after a node has stepped down from Replicating to NonReplicating   *)
(* its ReplicaAnnounce schedule is cancelled: while its role is            *)
(* NonReplicating it never broadcasts a ReplicaAnnounce, after any number  *)
(* of earlier elections it won.                                            *)
C29_NoAnnounceWhileNonReplicating ==
  [][\A n \in Nodes :
       (step'.node = n /\ AnnounceSent(n)') => app'[n].m_role = "REPLICATING"]_vars

(* What the step-down does cancel: the one event held in                   *)
(* m_replica_announcement_event, that of the schedule started last; the    *)
(* events of schedules started by earlier wins stay queued                 *)
StepDownCancelsLatestSchedule ==
  [][\A n \in Nodes :
       (/\ step'.node = n
        /\ step'.op = "CheckElectionResults"
        /\ app[n].m_role = "REPLICATING"
        /\ app'[n].m_role = "NON_REPLICATING")
       => Cardinality(AnnouncementsOf(events', n))
            = Cardinality(AnnouncementsOf(events, n)) - 1]_vars

-----------------------------------------------------------------------------
(* Flooding of one envelope (specification SpecAsk)                        *)

(* The last step was the receive callback of a node for an envelope *)
Received == step.op \in AllTags

(* The receive callback of the last step has relayed the Store or Request  *)
(* envelope it was called for: the envelope is among its datagrams         *)
Relayed ==
  /\ Received
  /\ step.op \in {"store", "request"}
  /\ \E i \in 1..Len(step.out) : step.out[i].id = step.id

(* The nodes envelope id has not reached, with the applications as in apps *)
Unreached(apps, id) == {n \in Nodes : id \notin apps[n].m_received_messages}

(* C30: each envelope id is dispatched to a message handler at most once   *)
(* per node: a node that acts on an envelope (changes a field or the event *)
(* queue, builds an envelope, sends or calls back) had not received its id *)
(* before and has it recorded afterwards, and no id is ever forgotten.  So *)
(* a node relays a given Store or Request envelope at most once, every     *)
(* relay of an envelope leaves fewer nodes it has not reached, and its     *)
(* flooding stops after at most NumNodes relays.                           *)
C30_DispatchedOncePerNode ==
  [][/\ \A n \in Nodes : app[n].m_received_messages \subseteq app'[n].m_received_messages
     /\ Received' =>
          /\ step'.id \in app'[step'.node].m_received_messages
          /\ step'.id \in app[step'.node].m_received_messages =>
               /\ app' = app
               /\ events' = events
               /\ messages' = messages
               /\ step'.out = <<>>
               /\ step'.cb = <<>>
     /\ Relayed' =>
          /\ step'.id \notin app[step'.node].m_received_messages
          /\ Unreached(app', step'.id) = Unreached(app, step'.id) \ {step'.node}
          /\ Cardinality(Unreached(app', step'.id))
               < Cardinality(Unreached(app, step'.id))]_vars

(* A Request is flooded: a node that had it from its requestor gets a      *)
(* second copy, relayed by a third node, and drops it                      *)
C30_Witness ==
  /\ step.op = "request"
  /\ step.dup
  /\ step.out = <<>>
  /\ step.node # messages[step.id].by
  /\ step.src # messages[step.id].by
  /\ step.id \in app[step.src].m_received_messages

-----------------------------------------------------------------------------
(* The datagrams of one SemiProbabilisticSend (specification SpecSigma)    *)

(* The datagrams of the last step addressed to node p *)
CopiesTo(p) == {i \in 1..Len(step.out) : step.out[i].to = p}

(* The peers of node n whose recorded profile is at least sigma *)
ProfilePeers(n, sigma) ==
  {p \in DOMAIN app[n].m_peerProfiles : app[n].m_peerProfiles[p] >= sigma}

(* C31: SemiProbabilisticSend(M, src, sigma) unicasts M exactly once to     *)
(* each member of replicas and exactly once to each peer p with            *)
(* profiles[p] >= sigma that is neither in replicas nor equal to src, and   *)
(* to no other node; no peer receives two copies from one call.            *)
C31_SemiProbabilisticRecipients ==
  step.op = "SemiProbabilisticSend" =>
    LET n == step.node
        replicas == app[n].m_replicating_nodes
        others == (ProfilePeers(n, step.id) \ replicas) \ {step.src}
    IN  /\ \A i \in 1..Len(step.out) :
             /\ step.out[i].chan = "unicast"
             /\ step.out[i].id = Len(messages)
             /\ step.out[i].from = n
        /\ \A p \in replicas \cup others : Cardinality(CopiesTo(p)) = 1
        /\ \A p \in NodeIds \ (replicas \cup others) : CopiesTo(p) = {}
        /\ Len(step.out) = Cardinality(replicas \cup others)

(* An envelope was sent by a node that has a replica holder whose profile  *)
(* reaches sigma, and the relay source is a peer that is no replica holder *)
(* and whose profile reaches sigma as well: one copy went to the replica   *)
(* holder and none to the source                                           *)
C31_Witness ==
  /\ step.op = "SemiProbabilisticSend"
  /\ \E p \in app[Self].m_replicating_nodes \cap ProfilePeers(Self, step.id) :
       Cardinality(CopiesTo(p)) = 1
  /\ step.src \in ProfilePeers(Self, step.id) \ app[Self].m_replicating_nodes
  /\ CopiesTo(step.src) = {}
  /\ Len(step.out) >= 1

-----------------------------------------------------------------------------
(* Specification SpecSeek: the recipients of a lookup.  Node Self looks an *)
(* item up; before that peers ping it and announce themselves or others as *)
(* replica holders, and Self may have won its first election.              *)

SeekMaxTime == 2
SeekMaxCalls == 1
SeekMaxMsgs == 2
SeekTags == {"ping", "announce", "mode_change"}

NextSeek ==
  \/ Start(Self, MaxStarts) /\ UNCHANGED net
  \/ (\E d \in DataIds : CallLookup(Self, d, SeekMaxCalls)) /\ UNCHANGED net
  \/ PeerSends(Self, SeekTags, SeekMaxMsgs) /\ UNCHANGED net
  \/ Fire /\ UNCHANGED net
  \/ Tick(SeekMaxTime) /\ UNCHANGED net

SpecSeek == Init /\ [][NextSeek]_vars

(* P_ij of node n, in tenths *)
OwnProfile(n) == CalculateProfile([a |-> app[n]])

(* C32: for a Lookup that misses locally: if replicas is non-empty the     *)
(* Request is unicast to every known replica and to no other node; only if *)
(* replicas is empty is it sent to the profile peers whose value is at     *)
(* least sigma, with sigma the node's own P_ij; in both cases one pending  *)
(* entry request id -> data id is recorded.                                *)
C32_LookupRecipients ==
  [][(step'.op = "Lookup" /\ CheckLocalStorage([a |-> app[step'.node]], step'.id) = 0) =>
       LET n == step'.node
           replicas == app[n].m_replicating_nodes
           sigma == OwnProfile(n)
           request == Len(messages) + 1
           to == IF replicas # {} THEN replicas ELSE ProfilePeers(n, sigma) \ {n}
       IN  /\ messages' = Append(messages,
                 [RequestMsg(step'.id, n, IF replicas # {} THEN 0 ELSE sigma)
                    EXCEPT !.by = n, !.ts = now])
           /\ \A i \in 1..Len(step'.out) :
                 step'.out[i].id = request /\ step'.out[i].chan = "unicast"
           /\ SentTo(step'.out) = to
           /\ Len(step'.out) = Cardinality(to)
           /\ step'.cb = <<>>
           /\ app'[n].m_pendingLookups = app[n].m_pendingLookups \cup {request}
           /\ request \notin app[n].m_pendingLookups
           /\ app'[n].m_lookupMapping = MapPut(app[n].m_lookupMapping, request, step'.id)]_vars

(* The node knows a replica holder and a peer with a profile that is no    *)
(* replica holder; its Lookup went to the replica holder only              *)
C32_Witness ==
  /\ step.op = "Lookup"
  /\ app[Self].m_pendingLookups # {}
  /\ app[Self].m_replicating_nodes # {}
  /\ DOMAIN app[Self].m_peerProfiles \ app[Self].m_replicating_nodes # {}
  /\ SentTo(step.out) = app[Self].m_replicating_nodes

(* The node knows no replica holder and has two peers with profiles; its   *)
(* Lookup went to both                                                     *)
LookupByProfiles ==
  /\ step.op = "Lookup"
  /\ app[Self].m_pendingLookups # {}
  /\ app[Self].m_replicating_nodes = {}
  /\ Len(step.out) = 2

(* The node, Replicating and knowing no other replica holder, has a peer   *)
(* with a profile below its own P_ij; its Lookup went to nobody            *)
LookupToNobody ==
  /\ step.op = "Lookup"
  /\ app[Self].m_pendingLookups # {}
  /\ app[Self].m_role = "REPLICATING"
  /\ app[Self].m_peerProfiles # EmptyMap
  /\ step.out = <<>>

-----------------------------------------------------------------------------
(* A Store envelope for an item the node does not hold (SpecCarry)         *)

(* The last step handled the first copy of a Store envelope whose item the *)
(* node, in role r, held neither in Storage nor in Buffer                  *)
StoresNewItem(n, r) ==
  /\ step'.op = "store"
  /\ step'.node = n
  /\ ~step'.dup
  /\ app[n].m_role = r
  /\ CheckLocalStorage([a |-> app[n]], messages'[step'.id].data) = 0

(* Container st1 is container st with item d in one slot that was free *)
Placed(st, st1, d) ==
  \E k \in 1..Len(st) : st[k] = 0 /\ st1 = [st EXCEPT ![k] = d]

(* C33: a Replicating node that receives a Store envelope for an item it   *)
(* does not hold places the item in its Storage (if a slot is free) and    *)
(* relays the envelope to nobody; Buffer is unchanged.                     *)
C33_ReplicaHolderStores ==
  [][\A n \in Nodes : StoresNewItem(n, "REPLICATING") =>
       LET d == messages'[step'.id].data
       IN  /\ IF GetFreeSpace(app[n].m_storage) >= 1
              THEN Placed(app[n].m_storage, app'[n].m_storage, d)
              ELSE app'[n].m_storage = app[n].m_storage
           /\ app'[n].m_buffer = app[n].m_buffer
           /\ step'.out = <<>>
           /\ messages' = Append(messages, messages'[step'.id])
           /\ app'[n].m_role = "REPLICATING"]_vars

(* A replica holder that knows a peer above the forwarding threshold has   *)
(* stored the item of a Store envelope from another peer                   *)
C33_Witness ==
  /\ step.op = "store"
  /\ ~step.dup
  /\ app[Self].m_role = "REPLICATING"
  /\ messages[step.id].data \in IdsIn(app[Self].m_storage)
  /\ \A i \in MintedBy(Self) : messages[i].tag # "store"
  /\ EligiblePeers(app[Self]) \ {step.src} # {}
  /\ step.out = <<>>

(* A replica holder with Storage full has dropped the item of a Store      *)
(* envelope                                                                *)
HolderFullDropsItem ==
  /\ step.op = "store"
  /\ ~step.dup
  /\ app[Self].m_role = "REPLICATING"
  /\ GetFreeSpace(app[Self].m_storage) = 0
  /\ messages[step.id].data \notin IdsIn(app[Self].m_storage)
  /\ step.out = <<>>

-----------------------------------------------------------------------------
(* Carrier forwarding on a Ping (SpecCarry)                                *)

PingBelowOwnProfile ==
  /\ step.op = "ping"
  /\ ~step.dup
  /\ messages[step.id].val <= OwnProfile(Self)
  /\ app[Self].m_peerProfiles[step.src] = messages[step.id].val
  /\ step.out = <<>>

-----------------------------------------------------------------------------
(* Pending lookups at a relay (specification SpecLookup)                   *)

(* The failure callbacks of the last step *)
Failures == {i \in 1..Len(step.cb) : step.cb[i].kind = "failed"}

(* C36: a node holds a pending-lookup entry, and fires its failure         *)
(* callback, only for request ids it minted itself in its own Lookup call: *)
(* relaying another node's Request, with replicas empty or not, never adds *)
(* a pending entry at the relay and never later fires the relay's failure  *)
(* callback.                                                               *)
C36_PendingOnlyForOwnLookups ==
  \A n \in Nodes :
    /\ \A r \in app[n].m_pendingLookups : messages[r].by = n
    /\ step.node = n => \A i \in Failures : messages[step.cb[i].rid].by = n

(* What the code keeps: a relay that knows a replica holder passes the     *)
(* Request on without a pending entry and without a timeout                *)
RelayToReplicasAddsNoPending ==
  [][\A n \in Nodes :
       (/\ step'.op = "request"
        /\ step'.node = n
        /\ ~step'.dup
        /\ messages'[step'.id].by # n
        /\ app[n].m_replicating_nodes # {})
       => /\ app'[n].m_pendingLookups = app[n].m_pendingLookups
          /\ events' = events]_vars

-----------------------------------------------------------------------------
(* Outstanding election decisions (specification SpecElect)                *)

(* C37: at most one decision event (CheckElectionResults) is pending per   *)
(* node at any time: a node does not enter a new election while the        *)
(* decision of its previous election is still outstanding, whatever        *)
(* election_cooldown and election_timeout are (the defaults have the       *)
(* cooldown shorter than the timeout, as here).                            *)
C37_OneDecisionPending ==
  \A n \in Nodes : Cardinality(DecisionsOf(events, n)) <= 1

(* What the code keeps: a node enters an election whenever the cooldown is *)
(* over, whether or not a decision is outstanding, and the decision it     *)
(* schedules is due one election_timeout later                             *)
EntryIgnoresOutstandingDecision ==
  [][\A n \in Nodes :
       (/\ step'.op \in {"election", "TriggerElection"}
        /\ step'.node = n
        /\ ~step'.dup
        /\ Running(n)
        /\ now >= app[n].m_min_election_time)
       => /\ Cardinality(DecisionsOf(events', n)) = Cardinality(DecisionsOf(events, n)) + 1
          /\ \E k \in DecisionsOf(events', n) : events'[k].at = now + m_election_timeout]_vars

-----------------------------------------------------------------------------
(* The votes of a decision (specification SpecStepDown)                    *)

(* The Fitness envelopes of peer p with value f that node n has received   *)
(* at time t or later                                                      *)
VotesSince(n, p, f, t) ==
  {i \in app[n].m_received_messages :
     /\ messages[i].tag = "fitness"
     /\ messages[i].by = p
     /\ messages[i].val = f
     /\ messages[i].ts >= t}

(* C38: the votes compared at an election decision are Fitness envelopes   *)
(* the node received since it entered that election, one election_timeout  *)
(* before the decision: a Fitness envelope received while the node was not *)
(* in an election, or before an earlier decision, has no part in a later   *)
(* decision.                                                               *)
C38_VotesOfThisElectionOnly ==
  [][\A n \in Nodes :
       (step'.op = "CheckElectionResults" /\ step'.node = n /\ Running(n))
       => \A p \in DOMAIN app[n].m_peerFitness :
            VotesSince(n, p, app[n].m_peerFitness[p], now - m_election_timeout) # {}]_vars

(* What the code keeps: the table of votes changes only when a Fitness     *)
(* envelope is handled and when a decision empties it; entering an         *)
(* election leaves the votes recorded before in place                      *)
VotesKeptUntilDecision ==
  [][\A n \in Nodes :
       app'[n].m_peerFitness # app[n].m_peerFitness
       => /\ step'.node = n
          /\ step'.op \in {"fitness", "CheckElectionResults"}]_vars

-----------------------------------------------------------------------------
(* The Buffer (specification SpecCarry)                                    *)

-----------------------------------------------------------------------------
(* Specification SpecQueue: the receive callback with several datagrams    *)
(* queued.  Peers send node Self pings and Store envelopes, new ones and   *)
(* second copies; one or two datagrams are on the socket when the callback *)
(* runs, behind whatever an earlier callback left there.  The variable net *)
(* holds the datagrams left on the socket of a node.                       *)

QueueMaxTime == 2
QueueMaxMsgs == 2
QueueTags == {"ping", "store"}

(* The datagrams that can arrive at node n once the envelopes are msgs: a  *)
(* copy of any envelope a peer built, from any peer                        *)
Arrivals(n, msgs) ==
  {[from |-> src, id |-> i] : src \in Nodes \ {n},
                             i \in {j \in 1..Len(msgs) : msgs[j].by # n}}

(* What is on the socket of node n when its callback runs: the datagram    *)
(* left there, if any, and behind it the arrivals q                        *)
Queued(n, q) ==
  IF \E d \in net : d.to = n
  THEN LET d == CHOOSE x \in net : x.to = n
       IN  <<[from |-> d.from, id |-> d.id]>> \o q
  ELSE q

(* The receive callback of node n runs with one or two datagrams arrived,  *)
(* at most one of them an envelope a peer has just built                   *)
ReceiveQueued(n, tags, maxMsgs) ==
  /\ Running(n)
  /\ \E msgs \in {messages} \cup
                 {Append(messages, [m EXCEPT !.by = src, !.ts = now]) :
                    src \in Nodes \ {n},
                    m \in {x \in UNION {PeerMsgs(p) : p \in Nodes \ {n}} : x.tag \in tags}} :
       \E len \in 1..(IF net = {} THEN 2 ELSE 1) :
         \E q \in [1..len -> Arrivals(n, msgs)] :
           /\ Len(msgs) - Cardinality(MintedBy(n)) <= maxMsgs
           /\ msgs # messages => \E k \in 1..len : q[k].id = Len(msgs)
           /\ \A k \in 1..len : msgs[q[k].id].tag \in tags
           /\ LET queue == Queued(n, q)
                  r == HandleRequests([World(n) EXCEPT !.msgs = msgs], queue)
              IN  /\ Commit(r.w, "HandleRequest", queue[1].from, queue[1].id, r.dup)
                  /\ net' = {[to |-> n, from |-> r.left[k].from, id |-> r.left[k].id] :
                               k \in 1..Len(r.left)}

NextQueue ==
  \/ Start(Self, MaxStarts) /\ UNCHANGED net
  \/ ReceiveQueued(Self, QueueTags, QueueMaxMsgs)
  \/ Fire /\ UNCHANGED net
  \/ Tick(QueueMaxTime) /\ UNCHANGED net

SpecQueue == Init /\ [][NextQueue]_vars

(* C40: when several datagrams are queued on the receive socket and one of *)
(* them is a duplicate, the datagrams queued behind it are still handled   *)
(* in the same receive callback: when the callback has returned, no        *)
(* envelope the node has not seen yet is left on the socket.               *)
C40_DuplicateDoesNotEndCallback ==
  [][step'.op = "HandleRequest" =>
       \A d \in net' : d.id \in app'[d.to].m_received_messages]_vars

(* What the code keeps: the first datagram is always handled, and         *)
(* datagrams are left on the socket only by a callback that met a          *)
(* duplicate                                                               *)
HandledUpToFirstDuplicate ==
  [][step'.op = "HandleRequest" =>
       /\ step'.id \in app'[step'.node].m_received_messages
       /\ net' # {} => step'.dup]_vars

====
